---------------------------- MODULE Spec2Model ----------------------------
(***************************************************************************)
(* A model of ltx, the Linux Test Executor (src/ltx/ltx.c): the MessagePack *)
(* codec, the input framer, the output buffer and its drainer, the process *)
(* slot table with its environment overlays, the file transfers and the    *)
(* epoll event loop, together with the part of the kernel the executor     *)
(* talks to (stdin, stdout, capture pipes, the SIGCHLD signalfd, files).    *)
(*                                                                         *)
(* Bytes are the integers 0..255.  A size_t or uint64_t that the code      *)
(* shifts or masks is kept as its eight base-256 digits, least significant *)
(* first (U64), so that it keeps its 64-bit width.  A size_t that the code *)
(* only counts with is an integer; a value that wrapped below zero is kept *)
(* as the negative integer congruent to it modulo 2^64 and compared as an  *)
(* unsigned number (UGt).                                                   *)
(***************************************************************************)
EXTENDS Integers, Sequences, FiniteSets, TLC

(***************************************************************************)
(* Bounds of the model.                                                    *)
(***************************************************************************)
\* BUFSIZ of <stdio.h> (8192 in glibc), scaled down: the size of in_buf.data
\* and out_buf.data.
BufSize == 32
\* ARG_MAX/16 and ARG_MAX/2, scaled down: the size of env_ks and env_vs.
EnvKsSize == 8
EnvVsSize == 10
\* Capacity of the pipe behind stdout.
OutCap == 40
\* The 256 entries of env_ksv and env_vsv, scaled down.
EnvIdxLen == 4
\* The 1024-byte chunk and the 32-byte gap of the child-output read, scaled
\* down.
LogChunk == 2
LogGap == 6

(***************************************************************************)
(* enum msgp_fmt, enum ltx_msg_types and the table size.                   *)
(***************************************************************************)
msgp_fixarray0 == 144
msgp_fixarray15 == 159
msgp_fixstr0 == 160
msgp_fixstr31 == 191
msgp_nil == 192
msgp_bin8 == 196
msgp_bin16 == 197
msgp_bin32 == 198
msgp_uint8 == 204
msgp_uint16 == 205
msgp_uint32 == 206
msgp_uint64 == 207
msgp_str8 == 217
msgp_str16 == 218
msgp_str32 == 219
msgp_array16 == 220

ltx_msg_ping == 0
ltx_msg_pong == 1
ltx_msg_env == 2
ltx_msg_exec == 3
ltx_msg_log == 4
ltx_msg_result == 5
ltx_msg_get_file == 6
ltx_msg_set_file == 7
ltx_msg_data == 8
ltx_msg_kill == 9
ltx_msg_version == 10
ltx_msg_max == ltx_msg_version

\* childs[0x7f] and child_pids[0x7f]: the valid indices are 0..126.
TableLen == 127
\* The bound of process_env_msg's assertion on table_id.
EnvTableLimit == 128

Byte == 0..255

Min(a, b) == IF a < b THEN a ELSE b
Max(a, b) == IF a > b THEN a ELSE b

(***************************************************************************)
(* 64-bit unsigned numbers as eight base-256 digits, least significant     *)
(* first.                                                                   *)
(***************************************************************************)
\* Stands for every size of 2^30 or more: larger than any buffer, stream or
\* file of the model.
HugeSize == 1073741824

U64(n) ==
  [i \in 1..8 |->
     CASE i = 1 -> n % 256
       [] i = 2 -> (n \div 256) % 256
       [] i = 3 -> (n \div 65536) % 256
       [] i = 4 -> (n \div 16777216) % 256
       [] OTHER -> 0]

U64Zero == U64(0)

\* The value of d as an integer when it is below 2^30, HugeSize otherwise.
ToInt(d) ==
  IF d[5] = 0 /\ d[6] = 0 /\ d[7] = 0 /\ d[8] = 0 /\ d[4] < 64
  THEN d[1] + 256 * d[2] + 65536 * d[3] + 16777216 * d[4]
  ELSE HugeSize

\* d << (8 * k) in 64 bits.
ShiftLeftBytes(d, k) == [i \in 1..8 |-> IF i - k >= 1 THEN d[i - k] ELSE 0]

RECURSIVE AddAt(_, _, _)
\* d + (v << 8*(i-1)) in 64 bits, v a small carry or byte.
AddAt(d, i, v) ==
  IF v = 0 \/ i > 8 THEN d
  ELSE LET s == d[i] + v
       IN AddAt([d EXCEPT ![i] = s % 256], i + 1, s \div 256)

\* Unsigned a > b for size_t values kept as integers (negative: wrapped).
UGt(a, b) == IF (a < 0) = (b < 0) THEN a > b ELSE a < 0

(***************************************************************************)
(* Byte streams (pipes, files, what was written to stdout) are run-length  *)
(* encoded: a sequence of runs <<byte, count>> with count > 0 and no two   *)
(* neighbouring runs of the same byte, so that equal streams are equal     *)
(* values and a blob of 64 KiB is one run.                                 *)
(***************************************************************************)
RECURSIVE SLen(_)
SLen(s) == IF s = <<>> THEN 0 ELSE Head(s)[2] + SLen(Tail(s))

\* s followed by n copies of byte b.
SPush(s, b, n) ==
  IF n = 0 THEN s
  ELSE IF s # <<>> /\ s[Len(s)][1] = b
       THEN [s EXCEPT ![Len(s)] = <<b, s[Len(s)][2] + n>>]
       ELSE Append(s, <<b, n>>)

\* s followed by t: the runs that meet are joined when they are of one byte.
SCat(s, t) ==
  IF t = <<>> THEN s
  ELSE SPush(s, t[1][1], t[1][2]) \o Tail(t)

RECURSIVE STake(_, _)
\* The first k bytes of s (all of s when it is shorter).
STake(s, k) ==
  IF k <= 0 \/ s = <<>> THEN <<>>
  ELSE IF Head(s)[2] >= k THEN << <<Head(s)[1], k>> >>
       ELSE <<Head(s)>> \o STake(Tail(s), k - Head(s)[2])

RECURSIVE SDrop(_, _)
\* s without its first k bytes.
SDrop(s, k) ==
  IF k <= 0 \/ s = <<>> THEN s
  ELSE IF Head(s)[2] > k THEN << <<Head(s)[1], Head(s)[2] - k>> >> \o Tail(s)
       ELSE SDrop(Tail(s), k - Head(s)[2])

RECURSIVE SBytes(_)
\* The bytes of a (short) stream, one element each.
SBytes(s) ==
  IF s = <<>> THEN <<>>
  ELSE [i \in 1..Head(s)[2] |-> Head(s)[1]] \o SBytes(Tail(s))

\* What the stream x has after its prefix p.
SSuffix(x, p) ==
  IF p = <<>> THEN x
  ELSE (IF x[Len(p)] = p[Len(p)] THEN <<>>
        ELSE << <<x[Len(p)][1], x[Len(p)][2] - p[Len(p)][2]>> >>)
       \o SubSeq(x, Len(p) + 1, Len(x))

RECURSIVE SOfRange(_, _, _)
\* The stream of the bytes i..j of the sequence bs.
SOfRange(bs, i, j) ==
  IF i > j THEN <<>>
  ELSE IF i = j THEN << <<bs[i], 1>> >>
  ELSE SCat(SOfRange(bs, i, (i + j) \div 2), SOfRange(bs, (i + j) \div 2 + 1, j))

SOfBytes(bs) == SOfRange(bs, 1, Len(bs))

SIsPrefix(s, t) == STake(t, SLen(s)) = s

(***************************************************************************)
(* The encoder: ltx_write_number, ltx_write_obj, ltx_write_msg.  Each      *)
(* yields the bytes it pushes; none of them looks at the room left.        *)
(***************************************************************************)
\* The l low bytes of n, most significant first (the loop of line 323).
BigEndian(n, l) == [j \in 1..l |-> n[l + 1 - j]]

\* Lines 268-320: the tag h and the number l of bytes that follow it.
ltx_write_number_tag(kind, n) ==
  LET hi32 == n[5] # 0 \/ n[6] # 0 \/ n[7] # 0 \/ n[8] # 0
      hi16 == n[3] # 0 \/ n[4] # 0
      b1 == n[2] # 0
      small == ~hi32 /\ ~hi16 /\ ~b1
      hl == CASE kind = "array" ->
                   IF ~(small /\ n[1] <= 15) THEN <<msgp_array16, 2>>
                   ELSE <<msgp_fixarray0 + n[1], 0>>
              [] kind = "number" ->
                   IF hi32 THEN <<msgp_uint64, 8>>
                   ELSE IF hi16 THEN <<msgp_uint32, 4>>
                   ELSE IF b1 THEN <<msgp_uint16, 2>>
                   ELSE IF n[1] >= 128 THEN <<msgp_uint8, 1>>
                   ELSE <<n[1], 0>>
              [] kind = "str" ->
                   IF hi16 THEN <<msgp_str32, 4>>
                   ELSE IF b1 THEN <<msgp_str16, 2>>
                   ELSE IF ~(small /\ n[1] <= 31) THEN <<msgp_str8, 1>>
                   ELSE <<msgp_fixstr0 + n[1], 0>>
              [] kind = "bin" ->
                   IF hi16 THEN <<msgp_bin32, 4>>
                   ELSE IF b1 THEN <<msgp_bin16, 2>>
                   ELSE <<msgp_bin8, 1>>
  IN hl

\* Lines 322-324 with the bytes of n pushed from the least significant on.
ltx_write_number_LittleEndian(kind, n) ==
  <<ltx_write_number_tag(kind, n)[1]>>
    \o [j \in 1..ltx_write_number_tag(kind, n)[2] |-> n[j]]

ltx_write_number(kind, n) ==
  <<ltx_write_number_tag(kind, n)[1]>>
    \o BigEndian(n, ltx_write_number_tag(kind, n)[2])

LTX_NUMBER(n) == [kind |-> "number", u64 |-> U64(n), data |-> <<>>]
LTX_NIL == [kind |-> "nil", u64 |-> U64Zero, data |-> <<>>]
\* A string or blob of length len (a U64); data are the bytes memmove copies,
\* <<>> for a NULL data pointer.
LTX_STR(len, d) == [kind |-> "str", u64 |-> len, data |-> d]
LTX_BIN(len, d) == [kind |-> "bin", u64 |-> len, data |-> d]

ltx_write_obj(obj) ==
  CASE obj.kind = "number" -> ltx_write_number("number", obj.u64)
    [] obj.kind = "nil" -> <<msgp_nil>>
    [] OTHER -> ltx_write_number(obj.kind, obj.u64) \o obj.data

RECURSIVE WriteObjs(_)
WriteObjs(objs) ==
  IF objs = <<>> THEN <<>> ELSE ltx_write_obj(Head(objs)) \o WriteObjs(Tail(objs))

\* The bytes of one message: array header, type, objects.
MsgBytes(msg_type, objs) ==
  ltx_write_number("array", U64(Len(objs) + 1)) \o <<msg_type>> \o WriteObjs(objs)


(***************************************************************************)
(* The decoder.  A cursor is [start, used, left] over in_buf.data; data is *)
(* the whole array, bytes past in_buf.used included (the array is static:  *)
(* zero at start, and memmove leaves old bytes behind).  DataAt yields -1  *)
(* for an index past the end of the array.                                  *)
(***************************************************************************)
DataAt(data, i) == IF i >= 0 /\ i < Len(data) THEN data[i + 1] ELSE -1

\* ltx_cur_take: the cursor moved on by len; the pointer is start + used.
ltx_cur_take(cur, len) == [cur EXCEPT !.left = @ - len, !.used = @ + len]

CurPtr(cur) == cur.start + cur.used

RECURSIVE ReadSizeLoop(_, _, _, _, _)
ReadSizeLoop(data, ptr, len, i, res) ==
  IF i >= len THEN res
  ELSE ReadSizeLoop(data, ptr, len, i + 1,
                    AddAt(ShiftLeftBytes(res, i), 1, DataAt(data, ptr + i)))

\* ltx_read_size: [cur, u64, oob].
ltx_read_size(data, cur, len) ==
  [cur |-> ltx_cur_take(cur, len),
   u64 |-> ReadSizeLoop(data, CurPtr(cur), len, 0, U64Zero),
   oob |-> CurPtr(cur) + len > Len(data)]

\* ltx_read_str_size: [cur, res, u64, fatal, oob]; res is -1 when the length
\* bytes are not there yet.
ltx_read_str_size(data, cur) ==
  LET fmt == DataAt(data, CurPtr(cur))
      c1 == ltx_cur_take(cur, 1)
      w == IF fmt >= msgp_str8 /\ fmt <= msgp_str32 THEN 1 + fmt - msgp_str8
           ELSE 1 + fmt - msgp_bin8
  IN IF fmt = -1
     THEN [cur |-> c1, res |-> 0, u64 |-> U64Zero, fatal |-> FALSE, oob |-> TRUE]
     ELSE IF fmt >= msgp_fixstr0 /\ fmt <= msgp_fixstr31
     THEN [cur |-> c1, res |-> fmt - msgp_fixstr0, u64 |-> U64(fmt - msgp_fixstr0),
           fatal |-> FALSE, oob |-> FALSE]
     ELSE IF ~((fmt >= msgp_str8 /\ fmt <= msgp_str32) \/ (fmt >= msgp_bin8 /\ fmt <= msgp_bin32))
     THEN [cur |-> c1, res |-> 0, u64 |-> U64Zero, fatal |-> TRUE, oob |-> FALSE]
     ELSE IF UGt(w, c1.left)
     THEN [cur |-> c1, res |-> -1, u64 |-> U64Zero, fatal |-> FALSE, oob |-> FALSE]
     ELSE LET r == ltx_read_size(data, c1, w)
          IN [cur |-> r.cur, res |-> ToInt(r.u64), u64 |-> r.u64,
              fatal |-> FALSE, oob |-> r.oob]

\* ltx_read_str once ltx_read_str_size has yielded s.
ltx_read_str_of(s, data) ==
  IF s.fatal \/ s.oob
  THEN [cur |-> s.cur, len |-> 0, ptr |-> -1, fatal |-> s.fatal, oob |-> s.oob]
  ELSE IF s.res = -1 \/ UGt(s.res, s.cur.left)
  THEN [cur |-> s.cur, len |-> 0, ptr |-> -1, fatal |-> FALSE, oob |-> FALSE]
  ELSE [cur |-> ltx_cur_take(s.cur, s.res), len |-> s.res, ptr |-> CurPtr(s.cur),
        fatal |-> FALSE, oob |-> CurPtr(s.cur) + s.res > Len(data)]

\* ltx_read_str: [cur, len, ptr, fatal, oob]; ptr is -1 for a NULL data
\* pointer (not all there yet), else the index of the first byte.
ltx_read_str(data, cur) == ltx_read_str_of(ltx_read_str_size(data, cur), data)

\* The len bytes of data from index ptr (what ltx_to_cstring and memcpy read).
Slice(data, ptr, len) == [i \in 1..len |-> data[ptr + i]]


(***************************************************************************)
(* The state.                                                              *)
(***************************************************************************)
VARIABLES
  status,          \* "running", "fatal" (exit(1)), "exited" (return 0),
                   \* "killed" (ended by a signal) or "undefined" (the code
                   \* left defined behaviour)
  diag,            \* the message of the fatal assertion that fired
  pc,              \* where event_loop stands: "wait", "events", "msgs"
  stop,            \* event_loop's stop
  events,          \* the events epoll_wait returned, not yet processed
  outer_cur,       \* process_msgs' outer_cur
  in_buf,          \* [used, data]; off is always 0
  out_buf,         \* [off, used, data]; data are the used bytes
  out_fd_blocked,
  childs,          \* table_id -> struct ltx_child, the touched slots only
  child_pids,      \* table_id -> pid, the touched slots only
  environ,         \* the executor's own environment
  script,          \* the bytes the controller sends that stdin has not given yet
  inHup,           \* the controller closed its end of stdin
  sent,            \* every byte written to stdout, in order
  outPipe,         \* bytes in the stdout pipe the controller has not read
  outEdge,         \* an edge-triggered EPOLLOUT for stdout is queued
  outClosed,       \* the controller closed its end of stdout
  procs,           \* pid -> the child forked with that pid
  pipes,           \* capture pipe -> [data, wopen, ropen]
  epoll,           \* the capture pipes registered with epoll: <<pipe, table_id>>
  sig_pending,     \* the pending SIGCHLD's siginfo as a sequence of 0 or 1
  files,           \* path -> contents
  next_pid,
  now,             \* what ltx_gettime returns
  plan,            \* what the controller does (never changes): the frames it
                   \* sends, in order, and whether it stalls reading stdout
  nframes,         \* how many frames process_msgs has handled to the end
  last             \* what the last step did (history for the properties)

vars == <<status, diag, pc, stop, events, outer_cur, in_buf, out_buf,
          out_fd_blocked, childs, child_pids, environ, script, inHup, sent,
          outPipe, outEdge, outClosed, procs, pipes, epoll, sig_pending,
          files, next_pid, now, plan, nframes, last>>

\* The state as one record, for the handlers to work on.
St ==
  [status |-> status, diag |-> diag, stop |-> stop, in_buf |-> in_buf,
   out_buf |-> out_buf, out_fd_blocked |-> out_fd_blocked, childs |-> childs,
   child_pids |-> child_pids, environ |-> environ, script |-> script,
   inHup |-> inHup, sent |-> sent, outPipe |-> outPipe, outEdge |-> outEdge,
   outClosed |-> outClosed,
   procs |-> procs, pipes |-> pipes, epoll |-> epoll,
   sig_pending |-> sig_pending, files |-> files, next_pid |-> next_pid,
   now |-> now, nframes |-> nframes, last |-> last, wait |-> FALSE,
   short |-> FALSE]

Zeros(n) == [i \in 1..n |-> 0]

\* A slot of the static, zero-initialised table.
EmptyChild ==
  [pid |-> 0, fd |-> 0, args |-> <<>>,
   env_ks |-> Zeros(EnvKsSize), env_ksv |-> Zeros(EnvIdxLen),
   env_vs |-> Zeros(EnvVsSize), env_vsv |-> Zeros(EnvIdxLen)]

ChildAt(m, t) == IF t \in DOMAIN m.childs THEN m.childs[t] ELSE EmptyChild
PidAt(m, t) == IF t \in DOMAIN m.child_pids THEN m.child_pids[t] ELSE 0
SetChild(m, t, c) == [m EXCEPT !.childs = (t :> c) @@ @]
SetPid(m, t, p) == [m EXCEPT !.child_pids = (t :> p) @@ @]

\* What a step did: the frame it consumed (input) and the bytes it appended to
\* the output (output), the slot it named, the pid it passed to kill, the pid
\* it forked, the bytes it spliced from stdin, the slots it wrote Results for;
\* the bytes it pushed on out_buf (appended), the bytes sendfile put on stdout
\* (direct), whether the last write of its last drain_write_buf gave EAGAIN
\* (eagain: 1 or 0, -1 when the step did not drain), and for a step that
\* called ltx_log how many bytes of the Log frame stdout took and how long
\* the frame is (logged).
NoLast ==
  [kind |-> "none", type |-> -1, slot |-> -1, killed |-> 0, forked |-> 0,
   spliced |-> <<>>, input |-> <<>>, output |-> <<>>, results |-> <<>>,
   buffered |-> 0, appended |-> <<>>, direct |-> <<>>, eagain |-> -1,
   logged |-> <<>>]

(***************************************************************************)
(* Buffers, the drainer and the diagnostics.                               *)
(***************************************************************************)
\* ltx_buf_avail, a size_t: negative when off + used passed BUFSIZ.
ltx_buf_avail(buf) == BufSize - (buf.off + buf.used)

\* Bytes pushed at ltx_buf_end; no check of the room.
BufAppend(buf, bytes) ==
  [buf EXCEPT !.used = @ + Len(bytes), !.data = @ \o bytes]

\* LTX_WRITE_MSG(&out_buf, ...): a push past data[BUFSIZ - 1] writes outside
\* the array.
ltx_write_msg(m, msg_type, objs) ==
  LET b == BufAppend(m.out_buf, MsgBytes(msg_type, objs))
  IN [m EXCEPT !.out_buf = b,
               !.last.appended = @ \o MsgBytes(msg_type, objs),
               !.status = IF b.off + b.used > BufSize THEN "undefined" ELSE @]

\* A write to the non-blocking stdout: as many bytes as the pipe has room for.
\* Returns the number written, 0 for EAGAIN.
OutRoom(m) == OutCap - m.outPipe

\* write(2) to a pipe whose read end is closed: SIGPIPE, which the executor
\* neither blocks, ignores nor handles, ends the process.
Sigpipe(m) ==
  IF m.status = "running" THEN [m EXCEPT !.status = "killed", !.diag = "SIGPIPE"]
  ELSE m

\* drain_write_buf without the memmove of lines 516-520: after a partial
\* write the bytes at the start of the buffer are sent again.
drain_write_buf_NoMove(m) ==
  LET n == Min(m.out_buf.used, OutRoom(m))
  IN IF m.outClosed \/ m.status = "killed" THEN Sigpipe(m) ELSE
     [m EXCEPT !.sent = SCat(@, SOfBytes(SubSeq(m.out_buf.data, 1, n))),
               !.outPipe = @ + n,
               !.out_fd_blocked = IF m.out_buf.used > n THEN 1 ELSE @,
               !.last.eagain = IF m.out_buf.used > n THEN 1 ELSE 0,
               !.out_buf = [off |-> 0, used |-> m.out_buf.used - n,
                            data |-> SubSeq(m.out_buf.data, 1, m.out_buf.used - n)]]

\* drain_write_buf with stdout non-blocking.
drain_write_buf(m) ==
  LET n == Min(m.out_buf.used, OutRoom(m))
  IN IF m.outClosed \/ m.status = "killed" THEN Sigpipe(m) ELSE
     [m EXCEPT !.sent = SCat(@, SOfBytes(SubSeq(m.out_buf.data, 1, n))),
               !.outPipe = @ + n,
               !.out_fd_blocked = IF m.out_buf.used > n THEN 1 ELSE @,
               !.last.eagain = IF m.out_buf.used > n THEN 1 ELSE 0,
               !.out_buf = [off |-> 0, used |-> m.out_buf.used - n,
                            data |-> SubSeq(m.out_buf.data, n + 1, m.out_buf.used)]]

\* Bytes written to stdout while it is in blocking mode: the write returns
\* when the controller has taken what did not fit.
BlockingWrite(m, stream) ==
  LET n == SLen(stream)
  IN IF m.outClosed \/ m.status = "killed" THEN Sigpipe(m) ELSE
     [m EXCEPT !.sent = SCat(@, stream),
               !.last.direct = SCat(@, stream),
               !.outPipe = Min(OutCap, @ + n),
               !.outEdge = @ \/ (m.outPipe + n > OutCap)]

\* drain_write_buf between fcntl(F_SETFL, 0) and fcntl(F_SETFL, O_NONBLOCK).
drain_write_buf_blocking(m) ==
  [BlockingWrite(m, SOfBytes(m.out_buf.data))
     EXCEPT !.out_buf = [off |-> 0, used |-> 0, data |-> <<>>],
            !.last.direct = m.last.direct,
            !.last.eagain = 0]

\* "LTX Version=" VERSION without its terminating NUL.
VersionText ==
  <<76, 84, 88, 32, 86, 101, 114, 115, 105, 111, 110, 61,
    48, 46, 48, 46, 49, 45, 100, 101, 118>>

\* The formatted line of ltx_fmt, "[file:func:line] text\n", cut to two bytes.
DiagText == <<33, 10>>

\* ltx_log in the executor: the Log frame goes straight to stdout, past
\* out_buf, until a write fails.
ltx_log(m) ==
  LET msg == MsgBytes(ltx_msg_log,
                      <<LTX_NIL, LTX_NUMBER(m.now),
                        LTX_STR(U64(Len(DiagText)), DiagText)>>)
      n == Min(Len(msg), OutRoom(m))
  IN IF m.outClosed \/ m.status = "killed" THEN Sigpipe(m) ELSE
     [m EXCEPT !.sent = SCat(@, SOfBytes(SubSeq(msg, 1, n))),
               !.last.logged = <<n, Len(msg)>>,
               !.outPipe = @ + n]

\* exit(1) or main's return 0 after ltx_log, when ltx_log returned.
Exit(l, st, msg) ==
  IF l.status = "killed" THEN l ELSE [l EXCEPT !.status = st, !.diag = msg]

\* ltx_assert failing, LTX_EXP_*: log and exit(1).
Fatal(m, msg) == Exit(ltx_log(m), "fatal", msg)

\* The code read or wrote outside an array.
Undefined(m, msg) == [m EXCEPT !.status = "undefined", !.diag = msg]


(***************************************************************************)
(* The frame handlers.  Each takes the state and the frame's cursor and    *)
(* yields [m, cur, ret]: ret is 0 when the frame is not all there yet.     *)
(***************************************************************************)
\* Limits of process_env_msg: key.len < 256, val.len < PATH_MAX.
KeyLenLimit == 256
PATH_MAX == 4096

Ret(m, cur, ret) == [m |-> m, cur |-> cur, ret |-> ret]

ltx_msg_echo(m, cur) ==
  IF ~UGt(ltx_buf_avail(m.out_buf), cur.used)
  THEN Fatal(m, "Out buffer full")
  ELSE IF cur.start + cur.used > BufSize
  THEN Undefined(m, "echo reads past in_buf")
  ELSE [m EXCEPT !.out_buf =
          BufAppend(@, Slice(m.in_buf.data, cur.start, cur.used)),
                 !.last.appended = @ \o Slice(m.in_buf.data, cur.start, cur.used)]

\* kill(pid, SIGKILL): 0 when the process exists (a zombie included), else
\* ESRCH.  A live target is marked killed.
KillProc(m, pid) ==
  IF pid \in DOMAIN m.procs /\ m.procs[pid].alive
  THEN [m EXCEPT !.procs[pid].killed = TRUE]
  ELSE m

\* Lines 751-753 without the test of child_pids[table_id]: kill(0, SIGKILL)
\* signals the executor's own process group.
process_kill_msg_kill_NoGuard(e, cur, table_id) ==
  IF PidAt(e, table_id) # 0
  THEN Ret([KillProc(e, PidAt(e, table_id))
              EXCEPT !.last.killed = PidAt(e, table_id)], cur, 1)
  ELSE Ret([e EXCEPT !.status = "fatal", !.diag = "killed by SIGKILL"], cur, 1)

\* Lines 751-753 with the slot given up at once: kill, then the pid of the
\* slot and its lookup entry set to 0.
process_kill_msg_kill_Frees(e, cur, table_id) ==
  IF PidAt(e, table_id) # 0
  THEN Ret(SetChild(SetPid([KillProc(e, PidAt(e, table_id))
                              EXCEPT !.last.killed = PidAt(e, table_id)],
                           table_id, 0),
                    table_id, [ChildAt(e, table_id) EXCEPT !.pid = 0]), cur, 1)
  ELSE Ret(e, cur, 1)

\* Lines 751-753: the slot's process, when it has one, is sent SIGKILL; the
\* process exists (a zombie included), so kill returns 0.
process_kill_msg_kill(e, cur, table_id) ==
  IF PidAt(e, table_id) # 0
  THEN Ret([KillProc(e, PidAt(e, table_id))
              EXCEPT !.last.killed = PidAt(e, table_id)], cur, 1)
  ELSE Ret(e, cur, 1)

\* Lines 749-750 done: e is the state after ltx_msg_echo.
process_kill_msg_echoed(e, cur, table_id) ==
  IF e.status # "running" THEN Ret(e, cur, 1)
  ELSE process_kill_msg_kill(e, cur, table_id)

process_kill_msg(m, cur) ==
  LET table_id == DataAt(m.in_buf.data, CurPtr(cur))
      c1 == ltx_cur_take(cur, 1)
  IN IF table_id = -1 THEN Ret(Undefined(m, "read past in_buf"), c1, 1)
     ELSE IF ~(table_id < TableLen) THEN Ret(Fatal(m, "Kill: table_id"), c1, 1)
     ELSE process_kill_msg_echoed(
            ltx_msg_echo([m EXCEPT !.last.slot = table_id], c1), c1, table_id)

(***************************************************************************)
(* Env: the per-slot overlay is two packed stores of NUL-terminated        *)
(* strings, env_ks and env_vs, with the offset tables env_ksv and env_vsv. *)
(* Arrays are sequences: C index i is element i + 1.                       *)
(***************************************************************************)
\* arr with bytes written from C index off on.
WriteAt(arr, off, bytes) ==
  [i \in 1..Len(arr) |->
     IF i - 1 >= off /\ i - 1 < off + Len(bytes) THEN bytes[i - off] ELSE arr[i]]

\* memmove(arr + dst, arr + src, n).
MemMove(arr, dst, src, n) ==
  [i \in 1..Len(arr) |->
     IF i - 1 >= dst /\ i - 1 < dst + n THEN arr[i - dst + src] ELSE arr[i]]

RECURSIVE CStr(_, _)
\* The C string at arr + off: the bytes up to the first NUL.
CStr(arr, off) ==
  IF off >= Len(arr) \/ arr[off + 1] = 0 THEN <<>>
  ELSE <<arr[off + 1]>> \o CStr(arr, off + 1)

RECURSIVE EnvKeyLoop(_, _, _)
\* The key loop of process_env_msg from index i: [i, child, fatal, oob].
EnvKeyLoop(child, key, i) ==
  IF i >= EnvIdxLen
  THEN [i |-> i, child |-> child, fatal |-> "", oob |-> FALSE]
  ELSE IF i + 1 >= EnvIdxLen
  THEN [i |-> i, child |-> child, fatal |-> "", oob |-> TRUE]
  ELSE LET cur_off == child.env_ksv[i + 1]
           nxt_off == child.env_ksv[i + 2]
           new_off == cur_off + Len(key) + 1
           cur_len == IF nxt_off # 0 THEN nxt_off - cur_off ELSE 0
       IN IF cur_len = 0
          THEN IF ~(new_off < EnvKsSize)
               THEN [i |-> i, child |-> child,
                     fatal |-> "Ran out of env key space", oob |-> FALSE]
               ELSE [i |-> i,
                     child |-> [child EXCEPT
                        !.env_ks = WriteAt(@, cur_off, key \o <<0>>),
                        !.env_ksv[i + 2] = new_off],
                     fatal |-> "", oob |-> FALSE]
          ELSE IF Len(key) + 1 = cur_len
                  /\ Slice(child.env_ks, cur_off, Len(key)) = key
          THEN [i |-> i, child |-> child, fatal |-> "", oob |-> FALSE]
          ELSE EnvKeyLoop(child, key, i + 1)

\* Lines 808-826, k the outcome of the key loop: [child, fatal, oob].
EnvStoreVal(k, val) ==
  LET i == k.i
      child == k.child
  IN IF k.oob \/ k.fatal # "" THEN [child |-> child, fatal |-> k.fatal, oob |-> k.oob]
     ELSE IF ~(i < EnvIdxLen - 1)
     THEN [child |-> child, fatal |-> "Ran out of env slots", oob |-> FALSE]
     ELSE LET cur_off == child.env_vsv[i + 1]
              nxt_off == child.env_vsv[i + 2]
              new_off == cur_off + Len(val) + 1
              slot_len == IF nxt_off # 0 THEN nxt_off - cur_off ELSE 0
              moved == IF slot_len # 0 /\ slot_len # Len(val) + 1
                       THEN MemMove(child.env_vs, new_off, nxt_off,
                                    EnvVsSize - Max(nxt_off, new_off))
                       ELSE child.env_vs
          IN IF ~(new_off < EnvVsSize)
             THEN [child |-> child, fatal |-> "Ran out of env value space",
                   oob |-> FALSE]
             ELSE [child |-> [child EXCEPT
                      !.env_vsv[i + 2] = new_off,
                      !.env_vs = WriteAt(moved, cur_off, val \o <<0>>)],
                   fatal |-> "", oob |-> FALSE]

\* The key is new to child when the loop stops on an entry that was empty.
EnvKeyIsNew(child0, k) ==
  k.oob \/ k.fatal # "" \/ child0.env_ksv[k.i + 2] = 0

\* Lines 786-826 with a value stored only for a key that is new to the slot.
EnvStore_KeepFirst(child0, key, val) ==
  IF EnvKeyIsNew(child0, EnvKeyLoop(child0, key, 0))
  THEN EnvStoreVal(EnvKeyLoop(child0, key, 0), val)
  ELSE [child |-> child0, fatal |-> "", oob |-> FALSE]

\* Lines 786-826: key and value stored in the slot: [child, fatal, oob].
EnvStore(child0, key, val) == EnvStoreVal(EnvKeyLoop(child0, key, 0), val)

\* Lines 777-826, key and val read and checked.
process_env_msg_store(m, table_id, key, val, e) ==
  LET kb == Slice(m.in_buf.data, key.ptr, key.len)
      vb == Slice(m.in_buf.data, val.ptr, val.len)
      r == EnvStore(ChildAt(e, table_id), kb, vb)
      e1 == [e EXCEPT !.last.slot = table_id]
  IN IF e.status # "running" THEN Ret(e, val.cur, 1)
     ELSE IF table_id = msgp_nil
     THEN Ret([e EXCEPT !.environ = (kb :> vb) @@ @], val.cur, 1)
     ELSE IF ~(table_id < TableLen)
     THEN Ret(Undefined(e1, "childs index past the table"), val.cur, 1)
     ELSE IF r.oob THEN Ret(Undefined(e1, "env_ksv index past the table"), val.cur, 1)
     ELSE IF r.fatal # "" THEN Ret(Fatal(e1, r.fatal), val.cur, 1)
     ELSE Ret(SetChild(e1, table_id, r.child), val.cur, 1)

\* Lines 772-777, the key read.
process_env_msg_val(m, table_id, key, val) ==
  IF val.oob THEN Ret(Undefined(m, "read past in_buf"), val.cur, 1)
  ELSE IF val.fatal THEN Ret(Fatal(m, "Not a string fmt"), val.cur, 1)
  ELSE IF val.ptr = -1 THEN Ret(m, val.cur, 0)
  ELSE IF ~(val.len < PATH_MAX) THEN Ret(Fatal(m, "Env: val.len"), val.cur, 1)
  ELSE process_env_msg_store(m, table_id, key, val, ltx_msg_echo(m, val.cur))

\* Lines 766-772, table_id read.
process_env_msg_key(m, table_id, key) ==
  IF key.oob THEN Ret(Undefined(m, "read past in_buf"), key.cur, 1)
  ELSE IF key.fatal THEN Ret(Fatal(m, "Not a string fmt"), key.cur, 1)
  ELSE IF key.ptr = -1 THEN Ret(m, key.cur, 0)
  ELSE IF ~(key.len # 0 /\ key.len < KeyLenLimit)
  THEN Ret(Fatal(m, "Env: key.len"), key.cur, 1)
  ELSE process_env_msg_val(m, table_id, key, ltx_read_str(m.in_buf.data, key.cur))

process_env_msg(m, cur) ==
  LET table_id == DataAt(m.in_buf.data, CurPtr(cur))
      c1 == ltx_cur_take(cur, 1)
  IN IF table_id = -1 THEN Ret(Undefined(m, "read past in_buf"), c1, 1)
     ELSE IF c1.left = 0 THEN Ret(m, c1, 0)
     ELSE IF ~(table_id = msgp_nil \/ table_id < EnvTableLimit)
     THEN Ret(Fatal(m, "Env: table_id"), c1, 1)
     ELSE process_env_msg_key(m, table_id, ltx_read_str(m.in_buf.data, c1))


(***************************************************************************)
(* Exec.                                                                   *)
(***************************************************************************)
\* One turn of the argument loop, path read: [cur, args, state].
ExecArg(path, args) ==
  IF path.oob THEN [cur |-> path.cur, args |-> args, state |-> "oob"]
  ELSE IF path.fatal THEN [cur |-> path.cur, args |-> args, state |-> "fatal"]
  ELSE IF path.ptr = -1 THEN [cur |-> path.cur, args |-> args, state |-> "incomplete"]
  ELSE [cur |-> path.cur, args |-> args, state |-> "ok"]

RECURSIVE ExecArgs(_, _, _, _), ExecArgsNext(_, _, _, _)
\* The argument loop of process_exec_msg, n strings still to read:
\* [cur, args, state], state one of "ok", "incomplete", "fatal", "oob".
ExecArgs(data, cur, n, args) ==
  IF n <= 0 THEN [cur |-> cur, args |-> args, state |-> "ok"]
  ELSE ExecArgsNext(data, n, args, ltx_read_str(data, cur))

\* The loop goes on after a string that was all there.
ExecArgsNext(data, n, args, path) ==
  IF ExecArg(path, args).state # "ok" THEN ExecArg(path, args)
  ELSE ExecArgs(data, path.cur, n - 1, Append(args, Slice(data, path.ptr, path.len)))

RECURSIVE ExecEnv(_, _, _)
\* Lines 640-648, in the forked child: the environment after the setenv calls.
ExecEnv(child, env, i) ==
  IF i >= EnvIdxLen \/ i + 1 >= EnvIdxLen THEN env
  ELSE IF child.env_ksv[i + 2] = 0 THEN env
  ELSE ExecEnv(child,
               (CStr(child.env_ks, child.env_ksv[i + 1])
                  :> CStr(child.env_vs, child.env_vsv[i + 1])) @@ env,
               i + 1)

\* pipe2, epoll_ctl(ADD) and fork: the state with the new process, its pipe
\* and child->fd set.
Forked(m, table_id, args) ==
  LET pid == m.next_pid
      child == [ChildAt(m, table_id) EXCEPT !.fd = pid, !.args = args]
      proc == [slot |-> table_id, alive |-> TRUE, killed |-> FALSE,
               env |-> ExecEnv(child, m.environ, 0), argv |-> args,
               wrote |-> 0, code |-> 0, results |-> 0, frame |-> m.nframes + 1]
      m1 == [m EXCEPT !.next_pid = @ + 1,
                      !.procs = (pid :> proc) @@ @,
                      !.pipes = (pid :> [data |-> <<>>, wopen |-> TRUE,
                                         ropen |-> TRUE]) @@ @,
                      !.epoll = @ \cup {<<pid, table_id>>},
                      !.last.slot = table_id,
                      !.last.forked = pid]
  IN SetChild(m1, table_id, child)

\* The parent without line 636, child_pids[table_id] = pid.
ForkChild_NoMap(m, table_id, args) ==
  SetChild(Forked(m, table_id, args), table_id,
           [ChildAt(Forked(m, table_id, args), table_id) EXCEPT !.pid = m.next_pid])

\* The parent's lines 634-637: child->pid and child_pids[table_id] are set.
ForkChild(m, table_id, args) ==
  SetPid(SetChild(Forked(m, table_id, args), table_id,
                  [ChildAt(Forked(m, table_id, args), table_id)
                     EXCEPT !.pid = m.next_pid]),
         table_id, m.next_pid)

\* Lines 613-637, the strings read into a; m1 is the state with the strings
\* ltx_to_cstring has written into child->args.
process_exec_msg_args(m, m1, table_id, a) ==
  LET e == ltx_msg_echo(m1, a.cur)
  IN IF a.state = "oob" THEN Ret(Undefined(m1, "read past in_buf"), a.cur, 1)
     ELSE IF a.state = "fatal" THEN Ret(Fatal(m1, "Not a string fmt"), a.cur, 1)
     ELSE IF a.state = "incomplete" THEN Ret(m1, a.cur, 0)
     ELSE IF e.status # "running" THEN Ret(e, a.cur, 1)
     ELSE Ret(ForkChild(e, table_id, a.args), a.cur, 1)

ScratchArgs(m, table_id, args) ==
  IF args = <<>> THEN m
  ELSE SetChild(m, table_id, [ChildAt(m, table_id) EXCEPT !.args = args])

process_exec_msg_loop(m, table_id, a) ==
  process_exec_msg_args(m, ScratchArgs(m, table_id, a.args), table_id, a)

process_exec_msg(m, cur, args_n) ==
  LET table_id == DataAt(m.in_buf.data, CurPtr(cur))
      c1 == ltx_cur_take(cur, 1)
  IN IF table_id = -1 THEN Ret(Undefined(m, "read past in_buf"), c1, 1)
     ELSE IF ~(table_id < TableLen) THEN Ret(Fatal(m, "Exec: table_id"), c1, 1)
     ELSE IF c1.left = 0 THEN Ret(m, c1, 0)
     ELSE process_exec_msg_loop(m, table_id,
                                ExecArgs(m.in_buf.data, c1, args_n - 1, <<>>))

(***************************************************************************)
(* GetFile and SetFile.                                                    *)
(***************************************************************************)
\* Lines 678-684 without the drain of line 679: the file goes out before
\* what out_buf holds.
process_get_file_msg_send_NoDrain(h, file) ==
  IF h.short /\ SLen(file) > 0
  THEN Fatal(BlockingWrite(h, STake(file, SLen(file) - 1)),
             "(len) != (st.st_size)")
  ELSE BlockingWrite(h, file)

\* Lines 678-684, h the state with the Data header in out_buf: the buffer is
\* drained and the file sent on the blocking stdout.  A file that shrank
\* after fstat gives a shorter transfer, which the assertion catches.
process_get_file_msg_send(h, file) ==
  IF h.short /\ SLen(file) > 0
  THEN Fatal(BlockingWrite(drain_write_buf_blocking(h),
                           STake(file, SLen(file) - 1)),
             "(len) != (st.st_size)")
  ELSE BlockingWrite(drain_write_buf_blocking(h), file)

\* Lines 667-686, the path read.
process_get_file_msg_path(m, path) ==
  LET cpath == Slice(m.in_buf.data, path.ptr, path.len)
      e == ltx_msg_echo(m, path.cur)
      st_size == SLen(m.files[cpath])
      h == ltx_write_msg(e, ltx_msg_data, <<LTX_BIN(U64(st_size), <<>>)>>)
  IN IF path.oob THEN Ret(Undefined(m, "read past in_buf"), path.cur, 1)
     ELSE IF path.fatal THEN Ret(Fatal(m, "Not a string fmt"), path.cur, 1)
     ELSE IF path.ptr = -1 THEN Ret(m, path.cur, 0)
     ELSE IF e.status # "running" THEN Ret(e, path.cur, 1)
     ELSE IF cpath \notin DOMAIN m.files THEN Ret(Fatal(e, "Invalid FD: open"), path.cur, 1)
     ELSE IF h.status # "running" THEN Ret(h, path.cur, 1)
     ELSE Ret(process_get_file_msg_send(h, m.files[cpath]), path.cur, 1)

process_get_file_msg(m, cur) ==
  process_get_file_msg_path(m, ltx_read_str(m.in_buf.data, cur))

\* Lines 705-739, the path and the blob's length read.
process_set_file_msg_bin(m, path, sz) ==
  LET data == m.in_buf.data
      cpath == Slice(data, path.ptr, path.len)
      bin_len == sz.res
      \* the part of the blob already in in_buf: one full write
      len1 == Min(sz.cur.left, bin_len)
      c2 == ltx_cur_take(sz.cur, len1)
      left == bin_len - len1
      \* the rest is spliced from stdin: all of it, or up to end of file
      have == SLen(m.script)
      len2 == Min(left, have)
      contents == SCat(SOfBytes(Slice(data, CurPtr(sz.cur), len1)),
                       STake(m.script, len2))
      m1 == [m EXCEPT !.files = (cpath :> contents) @@ @,
                      !.script = SDrop(@, len2),
                      !.last.spliced = STake(m.script, len2)]
      h == ltx_write_msg(m1, ltx_msg_set_file,
                         <<LTX_STR(U64(path.len), cpath), LTX_BIN(sz.u64, <<>>)>>)
  IN IF sz.oob THEN Ret(Undefined(m, "read past in_buf"), sz.cur, 1)
     ELSE IF sz.fatal THEN Ret(Fatal(m, "Not a string fmt"), sz.cur, 1)
     ELSE IF bin_len = -1 THEN Ret(m, sz.cur, 0)
     ELSE IF left > have /\ ~m.inHup THEN Ret([m EXCEPT !.wait = TRUE], c2, 1)
     ELSE IF h.status # "running" THEN Ret(h, c2, 1)
     ELSE Ret(BlockingWrite(drain_write_buf_blocking(h), STake(contents, bin_len)),
              c2, 1)

\* Lines 697-700, the path read.
process_set_file_msg_path(m, path) ==
  IF path.oob THEN Ret(Undefined(m, "read past in_buf"), path.cur, 1)
  ELSE IF path.fatal THEN Ret(Fatal(m, "Not a string fmt"), path.cur, 1)
  ELSE IF path.ptr = -1 \/ path.cur.left = 0 THEN Ret(m, path.cur, 0)
  ELSE process_set_file_msg_bin(m, path, ltx_read_str_size(m.in_buf.data, path.cur))

process_set_file_msg(m, cur) ==
  process_set_file_msg_path(m, ltx_read_str(m.in_buf.data, cur))


(***************************************************************************)
(* process_msgs: one turn of its loop, or its way out.                     *)
(***************************************************************************)
\* Bit tests of line 845: msg_fmt & 0x90.
HasFixarrayBits(fmt) == (fmt \div 128) % 2 = 1 \/ (fmt \div 16) % 2 = 1

\* The switch of lines 856-941 on a frame whose first two bytes are read.
Dispatch(m, cur, msg_arr_len, msg_type) ==
  CASE msg_type = ltx_msg_ping ->
         IF msg_arr_len # 1 THEN Ret(Fatal(m, "Ping: msg_arr_len"), cur, 1)
         ELSE LET e == ltx_msg_echo(m, cur)
              IN IF e.status # "running" THEN Ret(e, cur, 1)
                 ELSE Ret(ltx_write_msg(e, ltx_msg_pong, <<LTX_NUMBER(m.now)>>), cur, 1)
    [] msg_type = ltx_msg_env ->
         IF msg_arr_len # 4 THEN Ret(Fatal(m, "Env: msg_arr_len"), cur, 1)
         ELSE IF cur.left = 0 THEN Ret(m, cur, 0)
         ELSE process_env_msg(m, cur)
    [] msg_type = ltx_msg_exec ->
         IF ~(msg_arr_len > 2) THEN Ret(Fatal(m, "Exec: msg_arr_len"), cur, 1)
         ELSE IF cur.left = 0 THEN Ret(m, cur, 0)
         ELSE process_exec_msg(m, cur, msg_arr_len - 1)
    [] msg_type = ltx_msg_get_file ->
         IF msg_arr_len # 2 THEN Ret(Fatal(m, "Get File: msg_arr_len"), cur, 1)
         ELSE IF cur.left = 0 THEN Ret(m, cur, 0)
         ELSE process_get_file_msg(m, cur)
    [] msg_type = ltx_msg_set_file ->
         IF msg_arr_len # 3 THEN Ret(Fatal(m, "Set File: msg_arr_len"), cur, 1)
         ELSE IF cur.left = 0 THEN Ret(m, cur, 0)
         ELSE process_set_file_msg(m, cur)
    [] msg_type = ltx_msg_kill ->
         IF msg_arr_len # 2 THEN Ret(Fatal(m, "Kill: msg_arr_len"), cur, 1)
         ELSE IF cur.left = 0 THEN Ret(m, cur, 0)
         ELSE process_kill_msg(m, cur)
    [] msg_type = ltx_msg_version ->
         IF msg_arr_len # 1 THEN Ret(Fatal(m, "Version: msg_arr_len"), cur, 1)
         ELSE LET e == ltx_msg_echo(m, cur)
              IN IF e.status # "running" THEN Ret(e, cur, 1)
                 ELSE Ret(ltx_write_msg(e, ltx_msg_log,
                            <<LTX_NIL, LTX_NUMBER(m.now),
                              LTX_STR(U64(Len(VersionText) + 1), VersionText \o <<0>>)>>),
                          cur, 1)
    [] OTHER -> Ret(Fatal(m, "Not handled by executor"), cur, 1)

\* Lines 949-954: what is left of in_buf is moved to its start.
MsgsOut(m, outer) ==
  IF outer.left < 0 \/ outer.used + outer.left > BufSize
  THEN Undefined(m, "memmove past in_buf")
  ELSE [m EXCEPT !.in_buf = [used |-> outer.left,
                             data |-> MemMove(m.in_buf.data, 0, outer.used, outer.left)]]

\* The bytes a step from m to x appended to the output: what went to stdout
\* and what out_buf holds now, less what out_buf held before.
AppendedBytes(x, m) ==
  SDrop(SCat(SSuffix(x.sent, m.sent), SOfBytes(x.out_buf.data)), m.out_buf.used)

\* The history of a step from m to x: what it was and the bytes it appended.
Mark(x, m, kind, msg_type) ==
  [x EXCEPT !.last.kind = kind, !.last.type = msg_type,
            !.last.output = AppendedBytes(x, m)]

\* Lines 943-947 after a handler that returned: [m, outer, done].
ProcessMsgEnd(m, outer, cur0, msg_type, r, d) ==
  IF r.m.wait \/ r.m.status # "running"
  THEN [m |-> Mark(r.m, m, "fatal", msg_type), outer |-> outer, done |-> TRUE]
  ELSE IF r.ret = 0
  THEN [m |-> Mark(MsgsOut(r.m, outer), m, "partial", msg_type),
        outer |-> outer, done |-> TRUE]
  ELSE [m |-> [Mark(d, m, "frame", msg_type)
                 EXCEPT !.nframes = @ + 1,
                        !.last.input =
                           SCat(SOfBytes(Slice(m.in_buf.data, cur0.start,
                                               Min(r.cur.used, BufSize - cur0.start))),
                                d.last.spliced)],
        outer |-> [outer EXCEPT !.used = @ + r.cur.used, !.left = r.cur.left],
        done |-> FALSE]

ProcessMsgRet(m, outer, cur0, msg_type, r) ==
  ProcessMsgEnd(m, outer, cur0, msg_type, r,
                IF r.m.out_buf.used > BufSize \div 4 THEN drain_write_buf(r.m) ELSE r.m)

\* One turn of the while loop of process_msgs: [m, outer, done].
ProcessMsgTurn(m, outer) ==
  LET data == m.in_buf.data
      cur0 == [start |-> outer.start + outer.used, left |-> outer.left, used |-> 0]
      msg_fmt == DataAt(data, CurPtr(cur0))
      c1 == ltx_cur_take(cur0, 1)
      msg_arr_len == (msg_fmt - msgp_fixarray0) % 256
      msg_type == DataAt(data, CurPtr(c1))
      cur == ltx_cur_take(c1, 1)
  IN IF ~UGt(outer.left, 1)
     THEN [m |-> MsgsOut(m, outer), outer |-> outer, done |-> TRUE]
     ELSE IF msg_fmt = -1 \/ msg_type = -1
     THEN [m |-> Undefined(m, "read past in_buf"), outer |-> outer, done |-> TRUE]
     ELSE IF ~HasFixarrayBits(msg_fmt)
     THEN [m |-> Mark(Fatal(m, "Message should start with fixarray"), m, "fatal", -1),
           outer |-> outer, done |-> TRUE]
     ELSE IF ~(msg_type <= ltx_msg_max)
     THEN [m |-> Mark(Fatal(m, "msg_type > ltx_msg_max"), m, "fatal", msg_type),
           outer |-> outer, done |-> TRUE]
     ELSE ProcessMsgRet(m, outer, cur0, msg_type,
                        Dispatch(m, cur, msg_arr_len, msg_type))

ProcessMsgStep(m0, outer) ==
  ProcessMsgTurn([m0 EXCEPT !.last = [NoLast EXCEPT !.buffered = m0.out_buf.used]],
                 outer)

(***************************************************************************)
(* process_event, one operator per event source.                           *)
(***************************************************************************)
\* The drain at the end of process_event and of a process_msgs turn.
ThresholdDrain(m) ==
  IF m.status = "running" /\ m.out_buf.used > BufSize \div 4
  THEN drain_write_buf(m) ELSE m

\* fill_read_buf without the assertion of line 490: a read of no bytes into
\* a full buffer.
fill_read_buf_NoAssert(m, k) ==
  [m EXCEPT !.in_buf = [used |-> m.in_buf.used + k,
                        data |-> WriteAt(m.in_buf.data, m.in_buf.used,
                                         SBytes(STake(m.script, k)))],
            !.script = SDrop(m.script, k)]

\* fill_read_buf when read gives k bytes.
fill_read_buf(m, k) ==
  IF ~(BufSize - m.in_buf.used > 0) THEN Fatal(m, "read buffer full")
  ELSE [m EXCEPT !.in_buf = [used |-> m.in_buf.used + k,
                             data |-> WriteAt(m.in_buf.data, m.in_buf.used,
                                              SBytes(STake(m.script, k)))],
                 !.script = SDrop(m.script, k)]

\* case ltx_ev_io for stdin: ev carries which of EPOLLIN and EPOLLHUP are set.
EventStdin(m, ev, k) ==
  LET f == IF ev.in THEN fill_read_buf(m, k) ELSE m
  IN IF f.status = "running" /\ ev.hup THEN [f EXCEPT !.stop = @ + 1] ELSE f

\* case ltx_ev_io for stdout: EPOLLOUT.
EventStdout(m) == [m EXCEPT !.out_fd_blocked = 0]

\* The table_id loop of lines 985-988: the lowest slot whose child_pids entry
\* is pid, TableLen when there is none.
FindPid(m, pid) ==
  LET hits == {t \in DOMAIN m.child_pids : m.child_pids[t] = pid}
  IN IF hits = {} THEN TableLen
     ELSE CHOOSE t \in hits : \A u \in hits : t <= u

\* The Result frame for the child the siginfo names: [m, table_id], m the
\* state with the frame written.
SignalResult(m) ==
  LET si == Head(m.sig_pending)
      r == [m EXCEPT !.sig_pending = <<>>]
      table_id == FindPid(r, si.ssi_pid)
  IN [ltx_write_msg(r, ltx_msg_result,
                    <<LTX_NUMBER(table_id), LTX_NUMBER(r.now),
                      LTX_NUMBER(si.ssi_code), LTX_NUMBER(si.ssi_status)>>)
        EXCEPT !.last.results = <<table_id>>,
               !.last.slot = table_id,
               !.procs[si.ssi_pid].results = @ + 1]

\* case ltx_ev_signal without the two assignments that clear the slot.
EventSignal_KeepPid(m) ==
  IF ~(FindPid(m, Head(m.sig_pending).ssi_pid) < TableLen)
  THEN Fatal([m EXCEPT !.sig_pending = <<>>], "PID not found")
  ELSE ThresholdDrain(SignalResult(m))

\* case ltx_ev_signal: the read takes the one pending siginfo.
EventSignal(m) ==
  IF ~(FindPid(m, Head(m.sig_pending).ssi_pid) < TableLen)
  THEN Fatal([m EXCEPT !.sig_pending = <<>>], "PID not found")
  ELSE ThresholdDrain(
         SetChild(SetPid(SignalResult(m), SignalResult(m).last.slot, 0),
                  SignalResult(m).last.slot,
                  [ChildAt(SignalResult(m), SignalResult(m).last.slot)
                     EXCEPT !.pid = 0]))

\* The size given to read at line 1011: min(LogChunk, avail - LogGap) in
\* size_t, so a negative difference is a huge value.
ChildReadSize(m) ==
  LET d == ltx_buf_avail(m.out_buf) - LogGap
  IN IF d < 0 THEN LogChunk ELSE Min(LogChunk, d)

\* read(2) that takes the newest n bytes of the pipe instead of the oldest.
ChildRead_Newest(data, n) == SubSeq(data, Len(data) - n + 1, Len(data))

\* What read(child->fd, log_text, n) puts at log_text: the oldest n bytes of
\* the pipe.
ChildRead(data, n) == SubSeq(data, 1, n)

\* case ltx_ev_child_io for the slot table_id.
EventChildIo(m, table_id) ==
  LET child == ChildAt(m, table_id)
      fd == child.fd
      size == ChildReadSize(m)
      open == fd \in DOMAIN m.pipes /\ m.pipes[fd].ropen
      n == Min(size, Len(m.pipes[fd].data))
      text == ChildRead(m.pipes[fd].data, n)
      end == m.out_buf.off + m.out_buf.used
  IN IF ~open THEN Fatal(m, "Not positive: read(child->fd)")
     ELSE IF n = 0 /\ size > 0 /\ m.pipes[fd].wopen THEN [m EXCEPT !.wait = TRUE]
     ELSE IF n > 0
     THEN IF end + LogGap + n > BufSize
          THEN Undefined(m, "log_text past out_buf")
          ELSE ThresholdDrain(
                 ltx_write_msg([m EXCEPT !.pipes[fd].data = SubSeq(@, n + 1, Len(@)),
                                         !.last.slot = table_id],
                               ltx_msg_log,
                               <<LTX_NUMBER(table_id), LTX_NUMBER(m.now),
                                 LTX_STR(U64(n), text)>>))
     ELSE ThresholdDrain(
            [m EXCEPT !.pipes[fd].ropen = FALSE,
                      !.epoll = {r \in @ : r[1] # fd},
                      !.last.slot = table_id])

\* Lines 1056-1057 and 1064-1065.
FinalDrain(m) ==
  IF m.status = "running" /\ m.out_buf.used > 0 /\ m.out_fd_blocked = 0
  THEN drain_write_buf(m) ELSE m

\* while (!stop) at the end of a turn of event_loop; after the loop main logs
\* "Exiting" and returns 0.
LoopEnd(m) ==
  IF m.status = "running" /\ m.stop # 0
  THEN Exit(ltx_log(m), "exited", m.diag)
  ELSE m

(***************************************************************************)
(* The actions: event_loop in three phases, and the world around it (the   *)
(* controller at the other end of stdin and stdout, the children).         *)
(***************************************************************************)
\* The next state is the record m.
Commit(m) ==
  /\ status' = m.status
  /\ diag' = m.diag
  /\ stop' = m.stop
  /\ in_buf' = m.in_buf
  /\ out_buf' = m.out_buf
  /\ out_fd_blocked' = m.out_fd_blocked
  /\ childs' = m.childs
  /\ child_pids' = m.child_pids
  /\ environ' = m.environ
  /\ script' = m.script
  /\ inHup' = m.inHup
  /\ sent' = m.sent
  /\ outPipe' = m.outPipe
  /\ outEdge' = m.outEdge
  /\ outClosed' = m.outClosed
  /\ procs' = m.procs
  /\ pipes' = m.pipes
  /\ epoll' = m.epoll
  /\ sig_pending' = m.sig_pending
  /\ files' = m.files
  /\ next_pid' = m.next_pid
  /\ now' = m.now
  /\ nframes' = m.nframes
  /\ last' = m.last
  /\ plan' = plan

\* A controller that does not stall takes the bytes from the stdout pipe
\* before anything else happens.
Turn == plan.stalled \/ outPipe = 0

\* All orders in which the events of S can stand in epoll_wait's array.
Orderings(S) ==
  {f \in [1..Cardinality(S) -> S] : \A i, j \in 1..Cardinality(S) : f[i] = f[j] => i = j}

Ev(src, in, hup, table_id) ==
  [src |-> src, in |-> in, hup |-> hup, table_id |-> table_id]

\* The sources that are ready for certain when epoll_wait is called: a pending
\* SIGCHLD, the queued edge of stdout, stdin hung up, and every registered
\* capture pipe whose write end is closed (EPOLLHUP; the EPOLLOUT asked for
\* never comes on a read end).
ReadySet ==
  (IF sig_pending # <<>> THEN {Ev("sig", FALSE, FALSE, 0)} ELSE {})
  \cup (IF outEdge THEN {Ev("out", FALSE, FALSE, 0)} ELSE {})
  \cup (IF inHup THEN {Ev("in", SLen(script) > 0, TRUE, 0)} ELSE {})
  \cup {Ev("child", FALSE, TRUE, r[2]) : r \in {q \in epoll : ~pipes[q[1]].wopen}}

\* Bytes of the script have reached stdin.
StdinData ==
  IF ~inHup /\ SLen(script) > 0 THEN {Ev("in", TRUE, FALSE, 0)} ELSE {}

\* epoll_wait returns: with the ready sources in some order, or empty-handed
\* after its 100 ms.
EpollWait ==
  /\ status = "running" /\ pc = "wait"
  /\ Turn
  /\ \E opt \in SUBSET StdinData :
       \E evs \in Orderings(ReadySet \cup opt) :
         /\ events' = evs
         /\ outEdge' = FALSE
  /\ pc' = "events"
  /\ last' = NoLast
  /\ UNCHANGED <<status, diag, stop, outer_cur, in_buf, out_buf, out_fd_blocked,
                 childs, child_pids, environ, script, inHup, sent, outPipe,
                 outClosed, procs, pipes, epoll, sig_pending, files, next_pid, now, plan,
                 nframes>>

\* An event handled: the event loop goes on to the next one.
AfterEvent(m, kind) ==
  /\ ~m.wait
  /\ Commit(Mark(m, St, kind, -1))
  /\ events' = Tail(events)
  /\ pc' = pc
  /\ outer_cur' = outer_cur

EvStdin ==
  /\ status = "running" /\ pc = "events" /\ events # <<>>
  /\ Turn
  /\ Head(events).src = "in"
  /\ \E k \in 0..Min(BufSize - in_buf.used, SLen(script)) :
       /\ (k = 0) = (~Head(events).in \/ in_buf.used = BufSize)
       /\ Head(events).hup => k = Min(BufSize - in_buf.used, SLen(script))
       /\ AfterEvent(EventStdin([St EXCEPT !.last = NoLast], Head(events), k), "stdin")

EvStdout ==
  /\ status = "running" /\ pc = "events" /\ events # <<>>
  /\ Turn
  /\ Head(events).src = "out"
  /\ AfterEvent(EventStdout([St EXCEPT !.last = NoLast]), "stdout")

EvSignal ==
  /\ status = "running" /\ pc = "events" /\ events # <<>>
  /\ Turn
  /\ Head(events).src = "sig"
  /\ AfterEvent(EventSignal([St EXCEPT !.last = NoLast]), "signal")

EvChildIo ==
  /\ status = "running" /\ pc = "events" /\ events # <<>>
  /\ Turn
  /\ Head(events).src = "child"
  /\ AfterEvent(EventChildIo([St EXCEPT !.last = NoLast], Head(events).table_id),
                "child_io")

\* Lines 1056-1062: all events handled; drain, then process_msgs unless
\* in_buf holds less than two bytes.
EventsDone ==
  /\ status = "running" /\ pc = "events" /\ events = <<>>
  /\ Turn
  /\ LET d == FinalDrain([St EXCEPT !.last = NoLast])
     IN IF d.in_buf.used < 2
        THEN /\ Commit([LoopEnd(d) EXCEPT !.last.kind = "turn"])
             /\ pc' = "wait"
             /\ outer_cur' = outer_cur
        ELSE /\ Commit([d EXCEPT !.last.kind = "turn"])
             /\ pc' = "msgs"
             /\ outer_cur' = [start |-> 0, left |-> d.in_buf.used, used |-> 0]
  /\ events' = events

\* The state after a turn of process_msgs' loop; on its way out, lines
\* 1064-1065 and the loop condition.
AfterMsg(r) ==
  /\ ~r.m.wait
  /\ IF r.done
     THEN /\ Commit(LoopEnd(FinalDrain(r.m)))
          /\ pc' = "wait"
          /\ outer_cur' = [start |-> 0, left |-> 0, used |-> 0]
     ELSE /\ Commit(r.m)
          /\ pc' = "msgs"
          /\ outer_cur' = r.outer
  /\ events' = events

ProcessMsg ==
  /\ status = "running" /\ pc = "msgs"
  /\ Turn
  /\ \E short \in {FALSE, DOMAIN files # {}} :
       AfterMsg(ProcessMsgStep([St EXCEPT !.short = short], outer_cur))

(***************************************************************************)
(* The children and the controller.                                        *)
(***************************************************************************)
\* A bound: the bytes a child writes to its stdout before it exits.
MaxChildOut == 3

NoLoopStep == pc' = pc /\ events' = events /\ outer_cur' = outer_cur

\* A live child writes to the capture pipe, once: one byte, or MaxChildOut
\* bytes ("o", "p", ...) in one write.
ChildWrite ==
  \E pid \in DOMAIN procs : \E k \in {1, MaxChildOut} :
    /\ status = "running" /\ Turn
    /\ procs[pid].alive /\ ~procs[pid].killed
    /\ procs[pid].wrote = 0
    /\ Commit([St EXCEPT !.procs[pid].wrote = k,
                         !.pipes[pid].data = @ \o [i \in 1..k |-> 110 + i],
                         !.last = NoLast])
    /\ NoLoopStep

\* A child ends, by itself (CLD_EXITED = 1, status 0) or by the SIGKILL sent
\* to it (CLD_KILLED = 2, status 9).  Its end of the pipe closes; SIGCHLD is
\* a standard signal: while one is pending a second is not queued.
ChildExit ==
  \E pid \in DOMAIN procs :
    /\ status = "running" /\ Turn
    /\ procs[pid].alive
    /\ LET si == [ssi_pid |-> pid,
                  ssi_code |-> IF procs[pid].killed THEN 2 ELSE 1,
                  ssi_status |-> IF procs[pid].killed THEN 9 ELSE 0]
       IN Commit([St EXCEPT !.procs[pid].alive = FALSE,
                            !.procs[pid].code = si.ssi_code,
                            !.pipes[pid].wopen = FALSE,
                            !.sig_pending = IF @ = <<>> THEN <<si>> ELSE @,
                            !.last = NoLast])
    /\ NoLoopStep

\* The controller takes what is in the stdout pipe; a pipe that was full
\* becomes writable, which queues the edge-triggered EPOLLOUT.  A controller
\* that stalls lets the pipe fill up first.
ControllerRead ==
  /\ status = "running"
  /\ outPipe > 0
  /\ plan.stalled => outPipe = OutCap
  /\ Commit([St EXCEPT !.outPipe = 0,
                       !.outEdge = @ \/ outPipe = OutCap,
                       !.last = NoLast])
  /\ NoLoopStep

\* The controller has read the executor's reply to every frame it sent, no
\* child is running and the executor is idle in epoll_wait.
SessionDone ==
  /\ nframes = Len(plan.frames) /\ out_buf.used = 0 /\ outPipe = 0
  /\ \A pid \in DOMAIN procs : ~procs[pid].alive
  /\ pc = "wait" /\ ReadySet = {}

\* The controller closes its end of stdin after it wrote the whole script;
\* or, at the end of the session, both its ends (it exits): stdout reports
\* EPOLLOUT | EPOLLERR.
ControllerClose ==
  /\ status = "running" /\ Turn
  /\ ~inHup /\ SLen(script) = 0
  /\ \E out \in {FALSE, SessionDone} :
       Commit([St EXCEPT !.inHup = TRUE,
                         !.outClosed = out,
                         !.outPipe = IF out THEN 0 ELSE @,
                         !.outEdge = @ \/ out,
                         !.last = NoLast])
  /\ NoLoopStep

(***************************************************************************)
(* What the controller sends.  Its encoder is msgpack's, written here      *)
(* independently of the executor's.                                        *)
(***************************************************************************)
CtlStr(str) == <<msgp_fixstr0 + Len(str)>> \o str

\* A string with a length field of w bytes: str8 for 1, str16 for 2; the
\* shortest form for 0.
CtlStrWide(str, w) ==
  CASE w = 1 -> <<msgp_str8, Len(str)>> \o str
    [] w = 2 -> <<msgp_str16, Len(str) \div 256, Len(str) % 256>> \o str
    [] OTHER -> CtlStr(str)

CtlBinHdr(n) ==
  IF n < 256 THEN <<msgp_bin8, n>>
  ELSE IF n < 65536 THEN <<msgp_bin16, n \div 256, n % 256>>
  ELSE <<msgp_bin32, (n \div 16777216) % 256, (n \div 65536) % 256,
         (n \div 256) % 256, n % 256>>

\* A value of another kind where a string is due: the string's bytes as a
\* bin8 blob, the number 5, nil, or an empty array.
CtlWrong(str, kind) ==
  CASE kind = "bin" -> <<msgp_bin8, Len(str)>> \o str
    [] kind = "num" -> <<5>>
    [] kind = "nil" -> <<msgp_nil>>
    [] OTHER -> <<msgp_fixarray0>>

\* A frame of the plan.  As built here it is well formed; head, strw,
\* declared and wrong say where the bytes on the wire differ: the first byte
\* when it is not the fixarray tag of the frame's fields, the width of the
\* strings' length fields when they are not fixstr, the length the blob's
\* header declares when it is not the number of blob bytes sent, the kind of
\* value sent in place of the strings ("bin", "num", "nil", "arr") or of the
\* blob ("str").
Frame(type, slot, strs, blob) ==
  [type |-> type, slot |-> slot, strs |-> strs, blob |-> blob,
   head |-> -1, strw |-> 0, declared |-> -1, wrong |-> "none"]

WithHead(f, h) == [f EXCEPT !.head = h]
WithStrWidth(f, w) == [f EXCEPT !.strw = w]
WithDeclared(f, n) == [f EXCEPT !.declared = n]
WithWrong(f, kind) == [f EXCEPT !.wrong = kind]

\* The length the blob header of a SetFile frame declares.
Declared(f) == IF f.declared = -1 THEN SLen(f.blob) ELSE f.declared

FPing == Frame(ltx_msg_ping, -1, <<>>, <<>>)
FVersion == Frame(ltx_msg_version, -1, <<>>, <<>>)
FKill(t) == Frame(ltx_msg_kill, t, <<>>, <<>>)
FEnv(t, k, v) == Frame(ltx_msg_env, t, <<k, v>>, <<>>)
FExec(t, args) == Frame(ltx_msg_exec, t, args, <<>>)
FGetFile(path) == Frame(ltx_msg_get_file, -1, <<path>>, <<>>)
FSetFile(path, blob) == Frame(ltx_msg_set_file, -1, <<path>>, blob)

RECURSIVE CtlStrs(_, _)
CtlStrs(strs, w) ==
  IF strs = <<>> THEN <<>>
  ELSE CtlStrWide(Head(strs), w) \o CtlStrs(Tail(strs), w)

RECURSIVE CtlWrongs(_, _)
CtlWrongs(strs, kind) ==
  IF strs = <<>> THEN <<>>
  ELSE CtlWrong(Head(strs), kind) \o CtlWrongs(Tail(strs), kind)

\* The bytes of a frame on the wire.
Encode(f) ==
  LET fields == (IF f.slot # -1 THEN 1 ELSE 0) + Len(f.strs)
                + (IF f.type = ltx_msg_set_file THEN 1 ELSE 0)
  IN SCat(SOfBytes(<<IF f.head = -1 THEN msgp_fixarray0 + 1 + fields ELSE f.head,
                     f.type>>
                   \o (IF f.slot # -1 THEN <<f.slot>> ELSE <<>>)
                   \o (IF f.wrong \in {"none", "str"} THEN CtlStrs(f.strs, f.strw)
                       ELSE CtlWrongs(f.strs, f.wrong))
                   \o (IF f.type # ltx_msg_set_file THEN <<>>
                       ELSE IF f.wrong = "str" THEN <<msgp_fixstr0 + Declared(f)>>
                       ELSE CtlBinHdr(Declared(f)))),
          f.blob)

\* What the controller does.
Plan(frames, stalled) == [frames |-> frames, stalled |-> stalled]

RECURSIVE Concat(_)
Concat(frames) ==
  IF frames = <<>> THEN <<>> ELSE SCat(Encode(Head(frames)), Concat(Tail(frames)))

\* The strings and blobs of the plans.
KeyK == <<107>>
ValV == <<118>>
ValWW == <<119, 119>>
\* A value as long as in_buf: the frame that carries it never fits.
ValLong == [i \in 1..BufSize |-> 118]
PathP == <<112>>
PathF == <<102>>

\* Bounds: the sizes of the blobs sent with SetFile.  A small one fits the
\* input buffer, a medium one needs a two-byte length and the splice, a large
\* one needs a four-byte length.
SmallBlob == 3
MediumBlob == 300
LargeBlob == 65536

Blob(n) == IF n = 0 THEN <<>> ELSE << <<97, n - n \div 2>>, <<98, n \div 2>> >>

\* The most argv-tail strings a frame with a fixarray tag can carry: the
\* tag counts up to 15 fields, three of them type, slot and path.
MaxTail == 12

\* Plans whose frames are not as a well-behaved controller sends them.
WirePlans ==
  { Plan(<<WithDeclared(FSetFile(PathF, Blob(SmallBlob)), SmallBlob + 2)>>, FALSE),
    Plan(<<FExec(0, <<PathP>> \o [i \in 1..MaxTail |-> ValV])>>, FALSE),
    Plan(<<FExec(0, <<PathP>> \o [i \in 1..(MaxTail + 1) |-> ValV])>>, FALSE),
    Plan(<<FPing, WithHead(FKill(0), msgp_fixarray0 + 3)>>, FALSE),
    Plan(<<FPing, Frame(ltx_msg_log, -1, <<>>, <<>>)>>, FALSE),
    Plan(<<Frame(ltx_msg_max + 1, -1, <<>>, <<>>)>>, FALSE),
    Plan(<<FPing, WithHead(FPing, 1)>>, FALSE),
    Plan(<<WithStrWidth(FEnv(0, KeyK, ValV), 1), FExec(0, <<PathP>>)>>, FALSE),
    Plan(<<WithStrWidth(FExec(0, <<PathP>>), 2)>>, FALSE),
    Plan(<<WithWrong(FEnv(0, KeyK, ValV), "bin"), FExec(0, <<PathP>>)>>, FALSE),
    Plan(<<WithWrong(FSetFile(PathF, Blob(SmallBlob)), "str")>>, FALSE),
    Plan(<<FPing, WithWrong(FGetFile(PathF), "num")>>, FALSE),
    Plan(<<FPing, WithWrong(FExec(0, <<PathP, ValV>>), "nil")>>, FALSE),
    Plan(<<FPing, WithWrong(FEnv(0, KeyK, ValV), "arr")>>, FALSE),
    Plan(<<FPing, WithStrWidth(FEnv(0, KeyK, ValLong), 1)>>, FALSE) }

Plans ==
  { Plan(<<FPing, FPing, FVersion>>, FALSE),
    Plan(<<FVersion, FVersion, FVersion>>, TRUE),
    Plan(<<FVersion, FVersion, FKill(0), FKill(0), FKill(0), FKill(0), FKill(0)>>, TRUE),
    Plan(<<FExec(0, <<PathP>>), FKill(0), FKill(0)>>, FALSE),
    Plan(<<FKill(0), FExec(0, <<PathP, ValV>>)>>, FALSE),
    Plan(<<FExec(0, <<PathP>>), FExec(1, <<PathP>>)>>, FALSE),
    Plan(<<FExec(0, <<PathP>>), FExec(0, <<PathP>>)>>, FALSE),
    Plan(<<FEnv(0, KeyK, ValV), FEnv(0, KeyK, ValWW), FExec(0, <<PathP>>)>>, FALSE),
    Plan(<<FEnv(0, KeyK, ValWW), FEnv(0, KeyK, ValV), FExec(0, <<PathP>>)>>, FALSE),
    Plan(<<FEnv(0, PathP, ValV), FEnv(0, KeyK, ValV), FEnv(0, KeyK, ValWW),
           FExec(0, <<PathP>>)>>, FALSE),
    Plan(<<FEnv(0, PathP, ValV), FEnv(0, KeyK, ValV), FEnv(0, PathF, ValV),
           FEnv(0, PathP, ValWW), FExec(0, <<PathP>>)>>, FALSE),
    Plan(<<FEnv(msgp_nil, KeyK, ValV), FEnv(1, PathP, ValV), FExec(0, <<PathP>>)>>, FALSE),
    Plan(<<FEnv(TableLen, KeyK, ValV)>>, FALSE),
    Plan(<<FEnv(TableLen - 1, KeyK, ValV), FKill(TableLen), FPing>>, FALSE),
    Plan(<<FExec(TableLen, <<PathP>>)>>, FALSE) }
  \cup { Plan(<<FSetFile(PathF, Blob(n)), FGetFile(PathF)>>, FALSE) :
           n \in {0, SmallBlob, MediumBlob, LargeBlob} }
  \cup { Plan(<<FSetFile(PathF, Blob(SmallBlob)), FPing, FGetFile(PathF)>>, FALSE) }
  \cup WirePlans

\* A bound: the value of the monotonic clock, one byte on the wire.
Clock == 5

InitFrom(plans) ==
  /\ plan \in plans
  /\ script = Concat(plan.frames)
  /\ status = "running" /\ diag = ""
  /\ pc = "wait" /\ stop = 0 /\ events = <<>>
  /\ outer_cur = [start |-> 0, left |-> 0, used |-> 0]
  /\ in_buf = [used |-> 0, data |-> Zeros(BufSize)]
  /\ out_buf = [off |-> 0, used |-> 0, data |-> <<>>]
  /\ out_fd_blocked = 0
  /\ childs = [t \in {} |-> EmptyChild]
  /\ child_pids = [t \in {} |-> 0]
  /\ environ = [k \in {} |-> <<>>]
  /\ inHup = FALSE
  /\ sent = <<>>
  /\ outPipe = 0 /\ outEdge = TRUE /\ outClosed = FALSE
  /\ procs = [p \in {} |-> 0]
  /\ pipes = [p \in {} |-> 0]
  /\ epoll = {}
  /\ sig_pending = <<>>
  /\ files = [p \in {} |-> <<>>]
  /\ next_pid = 1
  /\ now = Clock
  /\ nframes = 0
  /\ last = NoLast

Init == InitFrom(Plans)

Next ==
  \/ EpollWait
  \/ EvStdin
  \/ EvStdout
  \/ EvSignal
  \/ EvChildIo
  \/ EventsDone
  \/ ProcessMsg
  \/ ChildWrite
  \/ ChildExit
  \/ ControllerRead
  \/ ControllerClose

Spec == Init /\ [][Next]_vars

\* epoll_wait returns again and again, after its 100 ms at the latest (line
\* 1050), and the controller reads what is in its pipe.  Nothing makes a
\* child write or end, or the controller close stdin.
FairSpec == Spec /\ WF_vars(EpollWait) /\ WF_vars(ControllerRead)

(***************************************************************************)
(* The encoder on its own: ltx_write_number applied to the values of each  *)
(* kind the executor writes.                                               *)
(***************************************************************************)
\* The digits the values are made of.
LowDigits == {0, 1, 15, 16, 31, 32, 127, 128, 255}
HighDigits == {0, 1}

\* The values given to the encoder: numbers are any 64-bit value, the
\* lengths of strings and blobs are below 2^32, those of arrays below 2^16.
EncDigits(kind) ==
  CASE kind = "number" -> 8 [] kind = "array" -> 2 [] OTHER -> 4

EncValues(kind) ==
  { [i \in 1..8 |-> IF i = 1 THEN a
                    ELSE IF i <= EncDigits(kind) THEN h[i] ELSE 0] :
      a \in LowDigits, h \in [2..EncDigits(kind) -> HighDigits] }

EncInit ==
  /\ Init
  /\ plan = Plan(<<FPing, FPing, FVersion>>, FALSE)

\* One call of ltx_write_number on the empty out_buf.
EncWrite ==
  \E kind \in {"array", "number", "str", "bin"} : \E n \in EncValues(kind) :
    /\ last.kind = "none"
    /\ out_buf' = BufAppend([off |-> 0, used |-> 0, data |-> <<>>],
                            ltx_write_number(kind, n))
    /\ last' = [NoLast EXCEPT !.kind = kind, !.input = n]
    /\ UNCHANGED <<status, diag, pc, stop, events, outer_cur, in_buf,
                   out_fd_blocked, childs, child_pids, environ, script, inHup,
                   sent, outPipe, outClosed, outEdge, procs, pipes, epoll, sig_pending,
                   files, next_pid, now, plan, nframes>>

(***************************************************************************)
(* A slot used again, by a controller that sends one frame at a time.      *)
(***************************************************************************)
\* Three keys set, the value of the first replaced, and two Execs.
ReusePlan ==
  Plan(<<FEnv(0, PathP, ValV), FEnv(0, KeyK, ValV), FEnv(0, PathF, ValV),
         FEnv(0, PathP, ValWW), FExec(0, <<PathP>>), FExec(0, <<PathP>>)>>, FALSE)

\* The controller sends its next frame when the one before has been read:
\* a read of stdin finds in_buf empty and gets one whole frame.
OneFramePerRead ==
  (last'.kind = "stdin" /\ Head(events).in) =>
    /\ in_buf.used = 0
    /\ nframes < Len(plan.frames)
    /\ in_buf'.used = SLen(Encode(plan.frames[nframes + 1]))

EvStdinFrame == EvStdin /\ OneFramePerRead

NextReuse ==
  \/ EpollWait
  \/ EvStdinFrame
  \/ EvStdout
  \/ EvSignal
  \/ EvChildIo
  \/ EventsDone
  \/ ProcessMsg
  \/ ChildWrite
  \/ ChildExit
  \/ ControllerRead
  \/ ControllerClose

SpecReuse == InitFrom({ReusePlan}) /\ [][NextReuse]_vars

(***************************************************************************)
(* A controller that does not read stdout while a child runs: the replies  *)
(* stay in out_buf, and the child's output finds it nearly full.           *)
(***************************************************************************)
\* Two Version replies fill the pipe of stdout and leave 18 bytes in out_buf;
\* the echoes of Exec and Kill bring it to BufSize - LogGap.
PressurePlan ==
  Plan(<<FVersion, FVersion, FExec(0, <<PathP>>), FKill(0)>>, TRUE)

SpecPressure == InitFrom({PressurePlan}) /\ [][NextReuse]_vars

SpecEnc == EncInit /\ [][EncWrite]_vars

(***************************************************************************)
(* The length decoder on its own: ltx_read_str_size applied to a tag and   *)
(* the four bytes after it.                                                *)
(***************************************************************************)
DecTags ==
  {msgp_fixstr0, msgp_fixstr0 + 5, msgp_fixstr31, msgp_str8, msgp_str16,
   msgp_str32, msgp_bin8, msgp_bin16, msgp_bin32}

DecBytes == {0, 1, 2, 255}

\* One call of ltx_read_str_size on in_buf holding the tag and four bytes:
\* last.results is how far the cursor went and the length returned.
DecRead ==
  \E tag \in DecTags : \E bytes \in [1..4 -> DecBytes] :
    /\ last.kind = "none"
    /\ in_buf' = [used |-> 5, data |-> WriteAt(in_buf.data, 0, <<tag>> \o bytes)]
    /\ last' = [NoLast EXCEPT
                  !.kind = "dec", !.input = <<tag>> \o bytes,
                  !.results =
                    <<ltx_read_str_size(WriteAt(in_buf.data, 0, <<tag>> \o bytes),
                                        [start |-> 0, left |-> 5, used |-> 0]).cur.used,
                      ltx_read_str_size(WriteAt(in_buf.data, 0, <<tag>> \o bytes),
                                        [start |-> 0, left |-> 5, used |-> 0]).u64>>]
    /\ UNCHANGED <<status, diag, pc, stop, events, outer_cur, out_buf,
                   out_fd_blocked, childs, child_pids, environ, script, inHup,
                   sent, outPipe, outClosed, outEdge, procs, pipes, epoll,
                   sig_pending, files, next_pid, now, plan, nframes>>

SpecDec == EncInit /\ [][DecRead]_vars

(***************************************************************************)
(* The properties.                                                         *)
(***************************************************************************)
Frames == plan.frames

\* The slots of the table.
Slots == 0..(TableLen - 1)

\* C1: echo law.  When the executor has handled the n-th frame of the plan to
\* the end, the bytes that step appended to the output start with the bytes
\* of that frame as the controller sent them, before any Pong, Log or Data.
C1_EchoLaw ==
  (last.kind = "frame" /\ nframes <= Len(Frames))
    => SIsPrefix(Encode(Frames[nframes]), last.output)

\* The bytes of the plan's frames before the i-th.
FrameStart(i) == SLen(Concat(SubSeq(Frames, 1, i - 1)))

\* The bytes stdin has handed to the executor so far.
Received == SLen(Concat(Frames)) - SLen(script)

\* The frame names no slot, or one of the table, or nil in an Env.
ValidSlot(f) ==
  f.slot = -1 \/ f.slot \in Slots \/ (f.type = ltx_msg_env /\ f.slot = msgp_nil)

\* process_msgs is about to parse a frame that is not all there: every frame
\* before it is handled, and what in_buf holds from outer_cur on is a proper
\* prefix of the next frame, at least the two bytes the loop asks for.  The
\* frame is not a SetFile, whose blob the handler takes from the stream.
IncompleteFrame ==
  /\ status = "running" /\ pc = "msgs"
  /\ nframes < Len(Frames)
  /\ Frames[nframes + 1].type # ltx_msg_set_file
  /\ ValidSlot(Frames[nframes + 1])
  /\ outer_cur.left >= 2
  /\ outer_cur.left < SLen(Encode(Frames[nframes + 1]))
  /\ Received = FrameStart(nframes + 1) + outer_cur.left
  /\ SOfBytes(Slice(in_buf.data, outer_cur.used, outer_cur.left))
       = STake(Encode(Frames[nframes + 1]), outer_cur.left)

\* The slot table without the scratch area child->args.
SlotState(c) == [t \in DOMAIN c |-> [c[t] EXCEPT !.args = <<>>]]

\* C2: partial-frame atomicity.  A turn of process_msgs on a frame that is not
\* all there leaves the executor running, echoes nothing, has no handler
\* effect (slot table, processes, files, environment), and keeps the bytes of
\* the partial frame at the start of in_buf.
C2_PartialFrameAtomic ==
  [][(IncompleteFrame /\ last'.kind \in {"frame", "partial", "fatal"})
       => /\ status' = "running"
          /\ nframes' = nframes
          /\ last'.output = <<>>
          /\ SlotState(childs') = SlotState(childs)
          /\ child_pids' = child_pids
          /\ procs' = procs /\ files' = files /\ environ' = environ
          /\ in_buf'.used = outer_cur.left
          /\ Slice(in_buf'.data, 0, outer_cur.left)
               = Slice(in_buf.data, outer_cur.used, outer_cur.left)]_vars

\* C3: every child gets its Result.  While the executor runs, a child that
\* has exited and has no Result frame yet is the one the pending SIGCHLD
\* names (so that the next read of the signal source reports it), and no
\* child has more than one Result frame.
C3_EveryChildOneResult ==
  status = "running" =>
    \A pid \in DOMAIN procs :
      /\ procs[pid].results <= 1
      /\ (~procs[pid].alive /\ procs[pid].results = 0)
           => (sig_pending # <<>> /\ Head(sig_pending).ssi_pid = pid)

\* The slots the executor has written to; every other slot is as it was at
\* the start, its pid and its child_pids entry zero.
Touched == DOMAIN childs \cup DOMAIN child_pids

\* childs[t].pid and child_pids[t].
SlotPid(t) == IF t \in DOMAIN childs THEN childs[t].pid ELSE 0
MapPid(t) == IF t \in DOMAIN child_pids THEN child_pids[t] ELSE 0

\* C4: slot exclusivity and map consistency.  Every slot's pid field equals
\* its child_pids entry, and no non-zero pid stands in two slots.
C4_SlotMapConsistent ==
  \A t \in Touched :
    /\ SlotPid(t) = MapPid(t)
    /\ \A u \in Touched : (u # t /\ MapPid(t) # 0) => MapPid(u) # MapPid(t)

\* Two slots hold a running child each.
C4_Witness ==
  \E t \in Touched, u \in Touched :
    t # u /\ MapPid(t) # 0 /\ MapPid(u) # 0 /\ SlotPid(t) # 0

\* The step appended a Result frame for slot t.
ResultAppended(t) ==
  /\ last'.kind = "signal"
  /\ SIsPrefix(SOfBytes(<<msgp_fixarray0 + 5, ltx_msg_result, t>>), last'.output)

\* C5: a slot leaves the running state only by Result emission.  A step that
\* clears a slot's pid or its child_pids entry clears both and appends the
\* Result frame of that slot; a step that appends a Result frame for a slot
\* finds the slot's pid non-zero and clears it.
C5_ClearedOnlyByResult ==
  [][\A t \in Touched :
       /\ ((MapPid(t) # 0 /\ MapPid(t)' = 0) \/ (SlotPid(t) # 0 /\ SlotPid(t)' = 0))
            => (ResultAppended(t) /\ MapPid(t)' = 0 /\ SlotPid(t)' = 0)
       /\ ResultAppended(t)
            => (MapPid(t) # 0 /\ MapPid(t)' = 0 /\ SlotPid(t)' = 0)]_vars

\* A Result frame has just been written for a slot, whose pid is now zero.
C5_Witness ==
  /\ last.kind = "signal" /\ last.results # <<>>
  /\ MapPid(last.results[1]) = 0
  /\ \E pid \in DOMAIN procs : procs[pid].results = 1

\* C6: the output buffer never holds more than its capacity.  In every
\* state off + used is at most the size of out_buf: no append writes past
\* the end of the array, whatever the output stream does.
C6_OutBufWithinCapacity == out_buf.off + out_buf.used <= BufSize

\* The i-th frame is an Env of slot s and key k.
IsEnvFor(i, s, k) ==
  /\ Frames[i].type = ltx_msg_env
  /\ Frames[i].slot = s
  /\ Frames[i].strs[1] = k

RECURSIVE OverlayKeys(_, _)
\* The keys of a slot's overlay from entry i on, as the loop of lines 640-648
\* reads them.
OverlayKeys(child, i) ==
  IF i + 1 >= EnvIdxLen \/ child.env_ksv[i + 2] = 0 THEN <<>>
  ELSE <<CStr(child.env_ks, child.env_ksv[i + 1])>> \o OverlayKeys(child, i + 1)

\* How many entries of the overlay of slot s have the key k.
Occurrences(s, k) ==
  IF s \notin DOMAIN childs THEN 0
  ELSE Cardinality({x \in 1..Len(OverlayKeys(childs[s], 0)) :
                      OverlayKeys(childs[s], 0)[x] = k})

BadSlot(f) ==
  /\ f.type \in {ltx_msg_env, ltx_msg_exec, ltx_msg_kill}
  /\ f.slot >= TableLen
  /\ ~(f.type = ltx_msg_env /\ f.slot = msgp_nil)

\* C8: slot ids are 0..126.  No frame that names a slot of 127 or more is
\* handled to its end, and no handler reaches for an entry of childs or
\* child_pids past the table.
C8_SlotIdInTable ==
  /\ \A i \in 1..Min(nframes, Len(Frames)) : ~BadSlot(Frames[i])
  /\ diag # "childs index past the table"

\* The slot has no live process: its child_pids entry is zero, or the process
\* it names has exited.
NoLiveProcess(t) ==
  MapPid(t) = 0 \/ MapPid(t) \notin DOMAIN procs \/ ~procs[MapPid(t)].alive

\* The step is process_msgs handling a Kill of a slot with no live process.
KillNoLive ==
  /\ status = "running" /\ pc = "msgs"
  /\ last'.type = ltx_msg_kill /\ last'.kind \in {"frame", "fatal"}
  /\ last'.slot \in Slots
  /\ NoLiveProcess(last'.slot)

\* The step appended the echo of the Kill and nothing else, left every
\* process and the slot table alone, and the executor runs on.
KillOnlyEchoes ==
  /\ status' = "running"
  /\ last'.output = Encode(FKill(last'.slot))
  /\ procs' = procs
  /\ SlotState(childs') = SlotState(childs)
  /\ child_pids' = child_pids

\* C9 as stated: a Kill of a slot with no live process only appends the echo,
\* signals no live process, leaves the slot table unchanged and does not end
\* the executor.
C9_KillNoLiveProcess == [][KillNoLive => KillOnlyEchoes]_vars

\* C9, amended: the same when out_buf has room for the echo, that is more
\* than the three bytes of the Kill frame are free.
C9_IdempotentKill ==
  [][(KillNoLive /\ ltx_buf_avail(out_buf) > SLen(Encode(FKill(0))))
       => KillOnlyEchoes]_vars

\* A Kill has just been handled for a slot whose Result was emitted before.
C9_Witness ==
  /\ last.kind = "frame" /\ last.type = ltx_msg_kill /\ last.killed = 0
  /\ status = "running"
  /\ \E pid \in DOMAIN procs :
       procs[pid].slot = last.slot /\ procs[pid].results = 1

\* The Data frame that carries the blob b.
DataFrame(b) ==
  SCat(SOfBytes(MsgBytes(ltx_msg_data, <<LTX_BIN(U64(SLen(b)), <<>>)>>)), b)

\* C10: round-trip files.  When a SetFile(P, B) frame is handled to its end,
\* the file P holds B; and the GetFile(P) that follows it appends its echo
\* and a Data frame whose payload is B.
C10_RoundTripFiles ==
  (last.kind = "frame" /\ nframes <= Len(Frames)) =>
    /\ (Frames[nframes].type = ltx_msg_set_file /\ Frames[nframes].declared = -1)
         => /\ Frames[nframes].strs[1] \in DOMAIN files
            /\ files[Frames[nframes].strs[1]] = Frames[nframes].blob
    /\ (/\ Frames[nframes].type = ltx_msg_get_file
        /\ nframes > 1
        /\ Frames[nframes - 1].type = ltx_msg_set_file
        /\ Frames[nframes - 1].declared = -1
        /\ Frames[nframes - 1].strs[1] = Frames[nframes].strs[1])
         => last.output = SCat(Encode(Frames[nframes]),
                               DataFrame(Frames[nframes - 1].blob))

\* The echo of a SetFile frame before its payload: type, path and the bin
\* header of the declared length.
SetFileEchoHeader(f) ==
  SOfBytes(MsgBytes(ltx_msg_set_file,
                    <<LTX_STR(U64(Len(f.strs[1])), f.strs[1]),
                      LTX_BIN(U64(Declared(f)), <<>>)>>))

\* C11: SetFile consumes exactly the declared length.  When a SetFile frame
\* whose blob header declares L bytes is handled to its end, the handler has
\* taken from the input the frame's header and exactly L bytes after it, and
\* has appended to the output the echo header and exactly L payload bytes,
\* also when the input stream ended before L bytes had arrived.
C11_SetFileConsumesDeclared ==
  (/\ last.kind = "frame" /\ last.type = ltx_msg_set_file
   /\ nframes <= Len(Frames)
   /\ Frames[nframes].type = ltx_msg_set_file)
    => /\ SLen(last.input)
            = SLen(Encode(Frames[nframes])) - SLen(Frames[nframes].blob)
              + Declared(Frames[nframes])
       /\ SLen(last.output)
            = SLen(SetFileEchoHeader(Frames[nframes])) + Declared(Frames[nframes])

\* process_msgs is about to handle a GetFile of a file that exists, and the
\* step is its handling, to the end or to a fatal error.
GetFileTurn ==
  /\ status = "running" /\ pc = "msgs"
  /\ nframes < Len(Frames)
  /\ Frames[nframes + 1].type = ltx_msg_get_file
  /\ Frames[nframes + 1].strs[1] \in DOMAIN files
  /\ last'.type = ltx_msg_get_file /\ last'.kind \in {"frame", "fatal"}

\* C12: GetFile is serialized with all other output.  A GetFile either ends
\* the executor with a fatal error, or puts on the output stream what was
\* buffered before, then its echo, then the Data header with the size of the
\* file, then the bytes of the file and nothing else, with out_buf left empty.
C12_GetFileSerialized ==
  [][GetFileTurn =>
       \/ status' = "fatal"
       \/ /\ status' = "running"
          /\ out_buf'.used = 0
          /\ sent' = SCat(SCat(sent, SOfBytes(out_buf.data)),
                          SCat(Encode(Frames[nframes + 1]),
                               DataFrame(files[Frames[nframes + 1].strs[1]])))]_vars

\* A GetFile of a file that is not empty has been handled to its end while
\* out_buf held bytes of an earlier frame.
C12_Witness ==
  /\ last.kind = "frame" /\ last.type = ltx_msg_get_file
  /\ last.buffered > 0
  /\ status = "running"
  /\ \E f \in DOMAIN files : SLen(files[f]) > 0 /\ SLen(last.output) > SLen(files[f])

\* The array length the first byte of a frame gives, as line 849 takes it.
WireArity(f) == (Encode(f)[1][1] - msgp_fixarray0) % 256

\* The arity the protocol requires of a frame of this type, argv-tail strings
\* at most 11 so that an Exec has 3..14 fields.
ArityOk(f) ==
  CASE f.type = ltx_msg_ping -> WireArity(f) = 1
    [] f.type = ltx_msg_env -> WireArity(f) = 4
    [] f.type = ltx_msg_exec -> WireArity(f) \in 3..14
    [] f.type = ltx_msg_get_file -> WireArity(f) = 2
    [] f.type = ltx_msg_set_file -> WireArity(f) = 3
    [] f.type = ltx_msg_kill -> WireArity(f) = 2
    [] f.type = ltx_msg_version -> WireArity(f) = 1
    [] OTHER -> FALSE

\* C13: arity validation.  No frame whose array length is not the arity of
\* its type is handled to its end, an Exec frame of 15 or more fields
\* included: such a frame is neither echoed nor dispatched.
C13_ArityValidated ==
  \A i \in 1..Min(nframes, Len(Frames)) : ArityOk(Frames[i])

\* The first byte of the frame is a fixarray tag and its type is one the
\* executor takes.
WellFormedHead(f) ==
  /\ Encode(f)[1][1] \in msgp_fixarray0..msgp_fixarray15
  /\ f.type \in {ltx_msg_ping, ltx_msg_env, ltx_msg_exec, ltx_msg_get_file,
                 ltx_msg_set_file, ltx_msg_kill, ltx_msg_version}

\* C14: malformed frames are fatal.  No frame whose first byte is not a
\* fixarray tag, whose type is above ltx_msg_max or whose type is Pong, Log,
\* Result or Data is handled to its end: none is echoed or has any effect.
C14_MalformedFrameFatal ==
  \A i \in 1..Min(nframes, Len(Frames)) : WellFormedHead(Frames[i])

\* Every string of the frame has the shortest length tag its length allows:
\* fixstr for up to 31 bytes, then str8, then str16.
ShortestEncoding(f) ==
  \A x \in 1..Len(f.strs) :
    f.strw = (IF Len(f.strs[x]) <= 31 THEN 0
              ELSE IF Len(f.strs[x]) < 256 THEN 1 ELSE 2)

\* C15: only the shortest encoding is accepted on input.  No frame with a
\* string whose length tag is wider than its length needs is handled to its
\* end: it is rejected, not decoded.
C15_ShortestEncodingOnly ==
  \A i \in 1..Min(nframes, Len(Frames)) : ShortestEncoding(Frames[i])

\* The index of the most significant digit of n that is not zero, 0 for 0.
TopDigit(n) ==
  IF \A i \in 1..8 : n[i] = 0 THEN 0
  ELSE CHOOSE i \in 1..8 : n[i] # 0 /\ \A j \in (i + 1)..8 : n[j] = 0

\* The narrowest tag of the kind that holds n, and the bytes of n it is
\* followed by.
NarrowestTag(kind, n) ==
  CASE kind = "number" ->
         IF TopDigit(n) <= 1 /\ n[1] < 128 THEN <<n[1], 0>>
         ELSE IF TopDigit(n) <= 1 THEN <<msgp_uint8, 1>>
         ELSE IF TopDigit(n) <= 2 THEN <<msgp_uint16, 2>>
         ELSE IF TopDigit(n) <= 4 THEN <<msgp_uint32, 4>>
         ELSE <<msgp_uint64, 8>>
    [] kind = "str" ->
         IF TopDigit(n) <= 1 /\ n[1] <= 31 THEN <<msgp_fixstr0 + n[1], 0>>
         ELSE IF TopDigit(n) <= 1 THEN <<msgp_str8, 1>>
         ELSE IF TopDigit(n) <= 2 THEN <<msgp_str16, 2>>
         ELSE <<msgp_str32, 4>>
    [] kind = "bin" ->
         IF TopDigit(n) <= 1 THEN <<msgp_bin8, 1>>
         ELSE IF TopDigit(n) <= 2 THEN <<msgp_bin16, 2>>
         ELSE <<msgp_bin32, 4>>
    [] OTHER ->
         IF TopDigit(n) <= 1 /\ n[1] <= 15 THEN <<msgp_fixarray0 + n[1], 0>>
         ELSE <<msgp_array16, 2>>

\* C16: canonical encoding on output.  When the bytes a handled frame was
\* sent as have been appended to the output (ltx_msg_echo copies them from
\* in_buf), every string length among them has the narrowest tag that holds
\* it.
C16_EmittedCanonical ==
  (/\ last.kind = "frame" /\ nframes <= Len(Frames)
   /\ SIsPrefix(Encode(Frames[nframes]), last.output))
    => ShortestEncoding(Frames[nframes])

\* The encoder on its own (C16 for the frames the executor builds itself):
\* what ltx_write_number puts into the buffer for a value is the narrowest
\* tag of its kind that holds the value, followed by the value's bytes, most
\* significant first, and nothing else.
ltx_write_number_Canonical ==
  last.kind \in {"array", "number", "str", "bin"} =>
    /\ out_buf.used = 1 + NarrowestTag(last.kind, last.input)[2]
    /\ out_buf.data[1] = NarrowestTag(last.kind, last.input)[1]
    /\ \A j \in 1..NarrowestTag(last.kind, last.input)[2] :
         out_buf.data[1 + j]
           = last.input[NarrowestTag(last.kind, last.input)[2] + 1 - j]

\* A value that needs four bytes has been written as a number.
ltx_write_number_Wide ==
  /\ last.kind = "number"
  /\ TopDigit(last.input) = 4 /\ last.input[1] = 128 /\ last.input[2] = 1
  /\ out_buf.used = 5

\* The pids of the children a plan can start.
Pids == 1..3

\* The capture pipe of the running child pid holds bytes the child wrote and
\* the executor has not read.
ChildOutputWaiting(pid) ==
  /\ status = "running"
  /\ pid \in DOMAIN procs /\ procs[pid].alive
  /\ pipes[pid].data # <<>>

\* C17: output of a running child is forwarded while it runs.  Bytes a running
\* child has written to its capture pipe are eventually read from the pipe
\* (and put into a Log frame), whether or not the child ever ends, unless the
\* executor itself ends first; this of an executor that handles every wake
\* to its end and calls epoll_wait again.
C17_OutputForwardedWhileRunning ==
  \A pid \in Pids :
    []<>(pc = "wait" \/ status # "running")
      => (ChildOutputWaiting(pid)
            ~> (status # "running"
                  \/ (pid \in DOMAIN pipes /\ pipes[pid].data = <<>>)))

\* A Log frame and a Result frame as the controller's decoder expects them
\* (slot, time, length and codes all below 32).
CtlLog(slot, t, text) == <<msgp_fixarray0 + 4, ltx_msg_log, slot, t>> \o CtlStr(text)
CtlResult(slot, t, code, st) == <<msgp_fixarray0 + 5, ltx_msg_result, slot, t, code, st>>

\* Everything the executor has put out, written or still in out_buf.
OutStream == SCat(sent, SOfBytes(out_buf.data))

\* The capture pipe of the child in slot t.
SlotPipe(t) == pipes[ChildAt(St, t).fd].data

\* A step of case ltx_ev_child_io that left the executor running put a Log
\* frame for the slot at the end of the output whose text is the oldest n
\* bytes of the child's pipe, 1 <= n <= LogChunk, and took them from the
\* pipe; or it put out nothing and closed the pipe.
LogIsNextChunk ==
  (last'.kind = "child_io" /\ status' = "running") =>
    \/ /\ last'.output = <<>>
       /\ ~pipes'[ChildAt(St, last'.slot).fd].ropen
    \/ \E n \in 1..Min(LogChunk, Len(SlotPipe(last'.slot))) :
         /\ last'.output
              = SOfBytes(CtlLog(last'.slot, now, SubSeq(SlotPipe(last'.slot), 1, n)))
         /\ pipes'[ChildAt(St, last'.slot).fd].data
              = SubSeq(SlotPipe(last'.slot), n + 1, Len(SlotPipe(last'.slot)))
         /\ SCat(sent', SOfBytes(out_buf'.data)) = SCat(OutStream, last'.output)

\* A step of case ltx_ev_signal that left the executor running put the
\* Result frame of the child that ended at the end of the output, after
\* everything that was there, the child's Log frames included.
ResultAfterLogs ==
  (last'.kind = "signal" /\ status' = "running") =>
    /\ \E code \in {1, 2}, st \in {0, 9} :
         last'.output = SOfBytes(CtlResult(last'.slot, now, code, st))
    /\ SCat(sent', SOfBytes(out_buf'.data)) = SCat(OutStream, last'.output)

NoFrameLeft ==
  \/ nframes >= Len(Frames)
  \/ in_buf.used < SLen(Encode(Frames[nframes + 1]))

\* The executor returned 0 from main only after a hang-up on stdin, at the
\* end of the wake that saw it: no event of that wake and no complete frame
\* read is left.
ExitAfterHangup ==
  status = "exited" =>
    /\ stop # 0 /\ inHup
    /\ pc = "wait" /\ events = <<>>
    /\ NoFrameLeft

\* Once the hang-up is seen the executor does not call epoll_wait again.
HangupEndsLoop == (status = "running" /\ stop # 0) => pc \in {"events", "msgs"}

\* The executor ended in no other way than by exit(1) after a fatal
\* assertion or by the return from main (leaving aside the states in which
\* the code left defined behaviour).
EndsByExitOnly == status \in {"running", "exited", "fatal", "undefined"}

\* C19: termination.  A hang-up on stdin ends the event loop after the wake
\* that saw it, with the remaining events and the complete frames read
\* handled, and the executor exits with status 0; a fatal assertion exits
\* with status 1; the executor ends in no other way.
C19_Termination == ExitAfterHangup /\ HangupEndsLoop /\ EndsByExitOnly

\* The Log frame the controller expects for a Version: nil slot, the time,
\* and the text "LTX Version=" VERSION as a string of exactly its length.
CtlVersionLog(t) == <<msgp_fixarray0 + 4, ltx_msg_log, msgp_nil, t>> \o CtlStr(VersionText)

\* C20: Version.  When a Version frame is handled to its end, what the step
\* appended to the output is the echo of the frame followed by exactly one
\* Log frame with a nil slot whose string is "LTX Version=" and the version,
\* the declared length being the length of that text, no byte more.
C20_VersionLog ==
  (last.kind = "frame" /\ last.type = ltx_msg_version /\ status = "running")
    => last.output = SOfBytes(<<msgp_fixarray0 + 1, ltx_msg_version>> \o CtlVersionLog(now))

\* C21: replacing a value leaves the other keys alone.  A child of an Exec
\* has, for every key an Env frame of its slot set before the Exec, the value
\* of the last such Env frame for that key, whatever the other Env frames of
\* the slot did (replaced values of another length, added keys).
C21_OverlayLastValueWins ==
  \A pid \in DOMAIN procs :
    \A j \in 1..(procs[pid].frame - 1) :
      (/\ Frames[j].type = ltx_msg_env
       /\ Frames[j].slot = procs[pid].slot
       /\ ~\E l \in (j + 1)..(procs[pid].frame - 1) :
             IsEnvFor(l, Frames[j].slot, Frames[j].strs[1]))
        => /\ Frames[j].strs[1] \in DOMAIN procs[pid].env
           /\ procs[pid].env[Frames[j].strs[1]] = Frames[j].strs[2]

\* The number of length bytes the tag stands for: none for fixstr, 1, 2 or 4
\* for str8/bin8, str16/bin16, str32/bin32.
LengthWidth(tag) ==
  CASE tag \in {msgp_str8, msgp_bin8} -> 1
    [] tag \in {msgp_str16, msgp_bin16} -> 2
    [] tag \in {msgp_str32, msgp_bin32} -> 4
    [] OTHER -> 0

\* The length the frame bytes stand for, as a 64-bit value: the low five bits
\* of a fixstr tag, else the big-endian value of the length bytes.
LengthValue(bs) ==
  IF LengthWidth(bs[1]) = 0 THEN U64(bs[1] - msgp_fixstr0)
  ELSE [i \in 1..8 |->
          IF i <= LengthWidth(bs[1]) THEN bs[2 + LengthWidth(bs[1]) - i] ELSE 0]

\* C22: length decoding.  ltx_read_str_size consumes the tag and exactly the
\* 0, 1, 2 or 4 length bytes the tag stands for, and the length it returns is
\* the big-endian value of those bytes (the low five bits of a fixstr tag).
C22_LengthDecoding ==
  last.kind = "dec" =>
    /\ last.results[1] = 1 + LengthWidth(last.input[1])
    /\ last.results[2] = LengthValue(last.input)

\* What out_buf holds when the step drains: what it held before the step
\* followed by what the step pushed on it.
Pending == out_buf.data \o last'.appended

\* A step that left the executor running moved the first n bytes of what was
\* pending from out_buf to stdout, in order, for some n, and left the others,
\* in order, in out_buf from offset 0; bytes of sendfile follow a drained
\* buffer.
DrainKeepsStream ==
  status' = "running" =>
    /\ out_buf'.off = 0
    /\ out_buf'.used = Len(out_buf'.data)
    /\ \E n \in 0..Len(Pending) :
         /\ sent' = SCat(SCat(sent, SOfBytes(SubSeq(Pending, 1, n))), last'.direct)
         /\ out_buf'.data = SubSeq(Pending, n + 1, Len(Pending))
         /\ last'.direct # <<>> => n = Len(Pending)

\* After a step that drained, out_fd_blocked is 1 when the last write of the
\* drain gave EAGAIN and 0 when it did not.
BlockedIffEagain ==
  (status' = "running" /\ last'.eagain # -1) => out_fd_blocked' = last'.eagain

\* C23: drain preserves the byte stream.  The bytes stdout accepted are a
\* prefix, in order and without gap or repeat, of the bytes pushed on out_buf;
\* after a drain the bytes not yet written start at offset 0 of out_buf, and
\* out_fd_blocked is 1 exactly when the last write reported EAGAIN.
C23_DrainKeepsStream == [][DrainKeepsStream /\ BlockedIffEagain]_vars

\* out_fd_blocked is 1 after a drain whose last write gave EAGAIN, and a
\* drain whose writes all succeeded leaves it as it was: only case ltx_ev_io
\* clears it.
BlockedByEagainOnly ==
  (status' = "running" /\ last'.eagain # -1) =>
    out_fd_blocked' = IF last'.eagain = 1 THEN 1 ELSE out_fd_blocked

\* The stream and the buffer as C23 has them; out_fd_blocked set by EAGAIN
\* and cleared by the readiness of stdout only.
C23_DrainKeepsStreamFlagSticky == [][DrainKeepsStream /\ BlockedByEagainOnly]_vars

\* A drain wrote a part of the frame the step pushed on out_buf and kept the
\* other part after EAGAIN.
C23_Witness ==
  /\ status = "running" /\ last.eagain = 1 /\ out_fd_blocked = 1
  /\ 0 < out_buf.used /\ out_buf.used < Len(last.appended)

\* The step is process_msgs handling a Kill of a slot that runs a child.
KillRunning ==
  /\ status = "running" /\ pc = "msgs"
  /\ last'.type = ltx_msg_kill /\ last'.kind \in {"frame", "fatal"}
  /\ last'.slot \in Slots
  /\ PidAt(St, last'.slot) # 0

\* The step left the slot table and the PID lookup table as they were.
KillKeepsSlot == childs' = childs /\ child_pids' = child_pids

\* A lookup entry that held a pid is 0 after the step only when the step is
\* case ltx_ev_signal writing the Result frame of that slot.
FreedByResultOnly ==
  \A t \in DOMAIN child_pids :
    (child_pids[t] # 0 /\ child_pids'[t] = 0) =>
      /\ last'.kind = "signal" /\ last'.results = <<t>>
      /\ \E code \in {1, 2}, st \in {0, 9} :
           last'.appended = CtlResult(t, now, code, st)
      /\ childs[t].pid = child_pids[t] /\ childs'[t].pid = 0

\* C24: Kill changes no slot state.  A Kill of a running slot leaves the
\* slot's pid and its PID lookup entry as they were, and the slot stays
\* running until case ltx_ev_signal reads the child's exit and writes its
\* Result frame.
C24_KillKeepsSlot == [][(KillRunning => KillKeepsSlot) /\ FreedByResultOnly]_vars

\* The Result frame of a child that was sent SIGKILL has just been written
\* and its slot is free.
C24_Witness ==
  /\ status = "running" /\ last.kind = "signal" /\ last.results # <<>>
  /\ PidAt(St, last.results[1]) = 0
  /\ \E pid \in DOMAIN procs :
       /\ procs[pid].slot = last.results[1]
       /\ procs[pid].killed /\ procs[pid].results = 1

\* The step is process_msgs dispatching a frame that carries a value of
\* another kind where a string, or for the blob of SetFile a blob, is due.
MismatchHandled ==
  /\ status = "running" /\ pc = "msgs"
  /\ nframes < Len(Frames) /\ Frames[nframes + 1].wrong # "none"
  /\ last'.kind \in {"frame", "fatal"}

\* The step ended the executor with a fatal error, pushed nothing on out_buf
\* and left the slots, the processes and the files as they were.
FatalNoEffect ==
  /\ status' = "fatal"
  /\ last'.appended = <<>>
  /\ nframes' = nframes
  /\ childs' = childs /\ child_pids' = child_pids
  /\ procs' = procs /\ files' = files

\* C25: a type mismatch is fatal.  When a handler is due a string and the
\* frame has a blob, a number, nil or an array there, or SetFile is due a
\* blob and the frame has a string, the executor ends with a fatal error
\* and neither echoes the frame nor acts on it.
C25_TypeMismatchFatal == [][MismatchHandled => FatalNoEffect]_vars

\* The step is case ltx_ev_io for a readable stdin with in_buf full.
ReadableAndFull ==
  /\ status = "running" /\ pc = "events" /\ events # <<>>
  /\ Head(events).src = "in" /\ Head(events).in
  /\ in_buf.used = BufSize

\* C26: the input buffer never holds more bytes than its capacity.  A read
\* adds at most the bytes that were free, and a readable stdin with no byte
\* free ends the executor with the fatal error "read buffer full".
C26_InBufBounded ==
  [][/\ in_buf'.used <= BufSize /\ Len(in_buf'.data) = BufSize
     /\ (last'.kind = "stdin" => in_buf'.used - in_buf.used <= BufSize - in_buf.used)
     /\ (ReadableAndFull =>
           status' = "fatal" /\ diag' = "read buffer full" /\ in_buf' = in_buf)]_vars

\* The executor has ended on a full input buffer: the frame in it is longer
\* than the buffer.
C26_Witness ==
  /\ status = "fatal" /\ diag = "read buffer full"
  /\ in_buf.used = BufSize /\ SLen(script) > 0

\* The step is process_msgs handling an Exec that forks in a slot which is
\* free again: the Result of a child it ran before has been written.
ReuseExec ==
  /\ status = "running" /\ pc = "msgs"
  /\ last'.kind = "frame" /\ last'.type = ltx_msg_exec /\ last'.forked # 0
  /\ PidAt(St, last'.slot) = 0
  /\ \E p \in DOMAIN procs : procs[p].slot = last'.slot /\ procs[p].results = 1

\* The child the step forked has, for every key an Env frame handled before
\* set on the slot, the value of the last such frame.
OverlayGiven ==
  \A j \in 1..nframes :
    (/\ Frames[j].type = ltx_msg_env /\ Frames[j].slot = last'.slot
     /\ ~\E l \in (j + 1)..nframes : IsEnvFor(l, Frames[j].slot, Frames[j].strs[1]))
      => /\ Frames[j].strs[1] \in DOMAIN procs'[last'.forked].env
         /\ procs'[last'.forked].env[Frames[j].strs[1]] = Frames[j].strs[2]

\* The four overlay arrays of a slot.
Overlay(c) == <<c.env_ks, c.env_ksv, c.env_vs, c.env_vsv>>

\* A step that handles an Exec or writes a Result leaves every slot's overlay
\* as it was.
OverlayUntouched ==
  (\/ last'.kind = "signal"
   \/ last'.kind = "frame" /\ last'.type = ltx_msg_exec)
    => \A t \in DOMAIN childs' :
         Overlay(childs'[t]) = Overlay(ChildAt(St, t))

\* C27: Env overlays persist across slot reuse.  The child of an Exec in a
\* slot whose earlier child has had its Result is given every entry the Env
\* frames set on the slot and did not overwrite, and neither Exec nor the
\* writing of a Result changes an overlay.
C27_OverlayPersists == [][(ReuseExec => OverlayGiven) /\ OverlayUntouched]_vars

\* The event at the head of the batch is of a child's capture pipe.
ChildEventNext ==
  /\ status = "running" /\ pc = "events" /\ events # <<>>
  /\ Head(events).src = "child"

\* The read of case ltx_ev_child_io for that event returns: the pipe it
\* reads has bytes or has no writer left.
ReadReturns ==
  ChildEventNext =>
    ~EventChildIo([St EXCEPT !.last = NoLast], Head(events).table_id).wait

\* Every registration of a capture pipe is served from that pipe: the slot
\* its event names holds the pipe's descriptor.
ServedFromOwnPipe ==
  \A r \in epoll : pipes[r[1]].ropen => ChildAt(St, r[2]).fd = r[1]

\* An open capture pipe can still be closed: a slot holds its descriptor.
PipeCanBeClosed ==
  \A fd \in DOMAIN pipes :
    pipes[fd].ropen => \E t \in DOMAIN childs : childs[t].fd = fd

\* C28: handling a child-capture event never suspends the loop and reads the
\* pipe that was reported ready.  Also when a slot is given a new Exec before
\* the pipe of its previous child reached EOF, the events of the old pipe are
\* served from the old pipe, and no capture pipe is left that the executor
\* cannot close after its EOF.
C28_CaptureServed == ReadReturns /\ ServedFromOwnPipe /\ PipeCanBeClosed

\* ltx_log put bytes of its Log frame on stdout in the last step.
LogWritten == last.logged # <<>> /\ last.logged[1] > 0

\* C29: the output stream is a concatenation of whole frames.  When ltx_log
\* writes its Log frame to stdout (a fatal assertion, or "Exiting"), out_buf
\* holds nothing: no frame is partly written and no earlier frame is pending;
\* and the Log frame is written whole.
C29_WholeFrames ==
  LogWritten => out_buf.used = 0 /\ last.logged[1] = last.logged[2]

\* C30: a child's exit record is always matched to a slot.  The pid of every
\* exit record waiting at the signal source is found in child_pids, also after
\* an Exec on a slot whose child has had no Result yet, and the executor never
\* ends with "PID not found".
C30_ExitMatched ==
  /\ \A i \in 1..Len(sig_pending) : FindPid(St, sig_pending[i].ssi_pid) < TableLen
  /\ diag # "PID not found"

\* The size of the read of case ltx_ev_child_io is at least 1 and is not a
\* difference that wrapped around: out_buf has more than the gap free.
ReadSizeSound == ChildEventNext => ltx_buf_avail(out_buf) > LogGap

\* A step closes the read end of a capture pipe only when the pipe is empty
\* and its writer is gone.
ClosedAtEofOnly ==
  \A fd \in DOMAIN pipes :
    (pipes[fd].ropen /\ ~pipes'[fd].ropen)
      => pipes[fd].data = <<>> /\ ~pipes[fd].wopen

\* C31: a capture pipe is closed only when the child's side has reached EOF.
\* The read of child output is never issued with a size of 0 or with a size
\* that wrapped around, so no unread output of a child is dropped by taking
\* a read of 0 bytes for EOF.
C31_ClosedAtEofOnly == [][ReadSizeSound /\ ClosedAtEofOnly]_vars

\* C32: no output is lost at shutdown. When the executor has exited after the
\* hang-up of stdin, every byte that was appended to out_buf has been written
\* to stdout, also when stdout was blocked at the hang-up: nothing is left in
\* out_buf.
C32_NoOutputLost == status = "exited" => out_buf.used = 0

\* The executor has ended by a failure: a fatal assertion, a signal or
\* undefined behaviour.
Failed == status \in {"fatal", "killed", "undefined"}

\* Bytes in out_buf are eventually written to stdout.
OutputWritten == (out_buf.used > 0) ~> (out_buf.used = 0 \/ Failed)

\* The flag set at EAGAIN is eventually cleared while the executor runs.
FlagCleared == (out_fd_blocked = 1) ~> (out_fd_blocked = 0 \/ status # "running")

\* C33: output always makes progress. With a controller that keeps reading
\* stdout, and an executor that handles every wake to its end, every byte
\* appended to out_buf is eventually written to stdout unless the executor
\* fails first, and out_fd_blocked, once set, is cleared again by a later
\* EPOLLOUT of stdout, also after a Get_file made stdout blocking and
\* non-blocking again.
C33_OutputProgress ==
  []<>(pc = "wait" \/ status # "running") => (OutputWritten /\ FlagCleared)

=============================================================================
